---- MODULE Spec2Model ----
(***************************************************************************)
(* Trip matching of the travel-companion application: trip creation with   *)
(* its matching pass, trip edit and deletion, and match acceptance with    *)
(* group provisioning, over the store (trips, trip_matches, groups,        *)
(* group_members).                                                         *)
(***************************************************************************)
EXTENDS Integers, Sequences, FiniteSets, TLC

\* null of a text value
NULL == "null"
\* a value that may be null (a coordinate pair, a route, a polyline): None is
\* null, Some(v) is the value v
None == << >>
Some(v) == <<v>>
IsNull(o) == o = None
Get(o) == o[1]

----------------------------------------------------------------------------
(* Bounds of the model *)

\* trip rows ever inserted (trip ids are 1..MaxTrips)
MaxTrips == 2
\* successful trip edits
MaxEdits == 1
\* groups created directly (POST /api/groups)
MaxGroups == 1
\* membership rows inserted before a join or an invite is the last
MaxMembers == 3

----------------------------------------------------------------------------
(* Program constants *)

SAME_DESTINATION_POINTS == 50
PICKUP_ALONG_ROUTE_POINTS == 40
DROPOFF_ALONG_ROUTE_POINTS == 40
ROUTES_OVERLAP_POINTS == 30
SAME_DATE_POINTS == 30
SAME_MODE_POINTS == 20
MATCH_THRESHOLD == 50
THRESHOLD_KM == 5

----------------------------------------------------------------------------
(* Text helpers.  Strings are atoms; the two conversions the handlers apply *)
(* are given by their value on the texts of the model.                      *)

trim(s) ==
    CASE s = " Rome " -> "Rome"
      [] s = "  "     -> ""
      [] OTHER        -> s

toLowerCase(s) ==
    CASE s = "Paris" -> "paris"
      [] s = "PARIS" -> "paris"
      [] s = "Rome"  -> "rome"
      [] s = " Rome " -> " rome "
      [] s = "Car"   -> "car"
      [] s = "BUS"   -> "bus"
      [] OTHER       -> s

Points(holds, weight) == IF holds THEN weight ELSE 0

\* JavaScript truthiness of a string-or-null value
Truthy(v) == v # NULL /\ v # ""

----------------------------------------------------------------------------
(* Geodesy.  A point is <<lat, lon>>; one unit is one kilometre of arc.    *)
(* Every place of the model lies on one meridian, where the haversine      *)
(* distance is exactly R * |dLat|, i.e. the difference of the latitudes in *)
(* these units; off the meridian the arc along the parallel is added.      *)

Abs(x) == IF x < 0 THEN -x ELSE x

calculateDistance(start, end) ==
    Abs(end[1] - start[1]) + Abs(end[2] - start[2])

\* "Infinity" is larger than every distance of the model
Infinity == 1000000

RECURSIVE distanceToRouteFrom(_, _, _, _)
distanceToRouteFrom(point, routeCoordinates, i, minDistance) ==
    IF i > Len(routeCoordinates) THEN minDistance
    ELSE LET distance == calculateDistance(point, routeCoordinates[i])
         IN  distanceToRouteFrom(point, routeCoordinates, i + 1,
                 IF distance < minDistance THEN distance ELSE minDistance)

distanceToRoute(point, routeCoordinates) ==
    distanceToRouteFrom(point, routeCoordinates, 1, Infinity)

\* the bound taken as exclusive
isAlongRoute_strict(point, routeCoordinates, thresholdKm) ==
    distanceToRoute(point, routeCoordinates) < thresholdKm

isAlongRoute(point, routeCoordinates, thresholdKm) ==
    distanceToRoute(point, routeCoordinates) <= thresholdKm

----------------------------------------------------------------------------
(* External services *)

\* what the geocoding service knows: place name -> <<lat, lon>>
Gazetteer ==
    [q \in {"Lyon", "Nice", "Paris", "paris", "PARIS", "Rome"} |->
        CASE q = "Lyon" -> <<0, 90>>
          [] q = "Nice" -> <<6, 90>>
          [] q = "Rome" -> <<25, 90>>
          [] OTHER      -> <<20, 90>>]

\* the service's answer to a search with limit=1: a list of hits {lat, lon}
NominatimSearch(q) ==
    IF q \in DOMAIN Gazetteer
    THEN << [lat |-> Gazetteer[q][1], lon |-> Gazetteer[q][2]] >>
    ELSE << >>

\* svc: "ok" the service answers, "error" non-2xx answer or network failure
geocode(location, svc) ==
    IF svc # "ok" THEN None
    ELSE LET data == NominatimSearch(location)
         IN  IF Len(data) > 0 THEN Some(<<data[1].lat, data[1].lon>>) ELSE None

mapToOSRMProfile(mode) ==
    CASE mode = "car"     -> "car"
      [] mode = "cycling" -> "bike"
      [] mode = "walking" -> "foot"
      [] mode = "bus"     -> "car"
      [] mode = "train"   -> "car"
      [] mode = "flight"  -> "car"
      [] OTHER            -> "car"

\* the routing service's GeoJSON geometry, a list of <<lon, lat>>: the two
\* endpoints, and for the bike and foot profiles a vertex half way
OSRMGeometry(profile, startLonLat, endLonLat) ==
    IF profile = "car"
    THEN <<startLonLat, endLonLat>>
    ELSE <<startLonLat,
           <<startLonLat[1], (startLonLat[2] + endLonLat[2]) \div 2>>,
           endLonLat>>

\* svc: "ok", "error" (non-2xx or network failure), "noroute" (code not Ok
\* or no routes), "empty" (a route whose geometry has no coordinates).
\* Indexing a null endpoint throws inside the try block, which returns null.
calculateRouteGeometry(start, end, mode, svc) ==
    IF IsNull(start) \/ IsNull(end) THEN None
    ELSE IF svc \in {"error", "noroute"} THEN None
    ELSE LET profile     == mapToOSRMProfile(mode)
             startLonLat == <<Get(start)[2], Get(start)[1]>>
             endLonLat   == <<Get(end)[2], Get(end)[1]>>
             geometry    == IF svc = "empty" THEN << >>
                            ELSE OSRMGeometry(profile, startLonLat, endLonLat)
         IN  Some([coordinates |->
                 [i \in 1..Len(geometry) |-> <<geometry[i][2], geometry[i][1]>>]])

----------------------------------------------------------------------------
(* Coordinates are stored as the text "lat,lon" *)

FormatCoords(c) ==
    IF IsNull(c) THEN None ELSE Some([lat |-> Get(c)[1], lon |-> Get(c)[2]])

ParseCoords(text) ==
    IF IsNull(text) THEN None ELSE Some(<<Get(text).lat, Get(text).lon>>)

----------------------------------------------------------------------------
(* Match scoring of one candidate row against the trip being created *)

Rule1(sanitizedData, potentialMatch) ==
    toLowerCase(sanitizedData.destination) = toLowerCase(potentialMatch.destination)

Rule2(sourceCoords, potentialMatch) ==
    LET potentialRouteGeometry == potentialMatch.routeGeometry
    IN  /\ ~IsNull(sourceCoords)
        /\ ~IsNull(potentialRouteGeometry)
        /\ Len(Get(potentialRouteGeometry)) > 0
        /\ isAlongRoute(Get(sourceCoords), Get(potentialRouteGeometry), THRESHOLD_KM)

Rule3(destCoords, potentialMatch) ==
    LET potentialRouteGeometry == potentialMatch.routeGeometry
    IN  /\ ~IsNull(destCoords)
        /\ ~IsNull(potentialRouteGeometry)
        /\ Len(Get(potentialRouteGeometry)) > 0
        /\ isAlongRoute(Get(destCoords), Get(potentialRouteGeometry), THRESHOLD_KM)

\* rule 4 reading the candidate's polyline instead of the new trip's
Rule4_candidateRoute(routeGeometry, potentialMatch) ==
    LET potentialSourceCoords == ParseCoords(potentialMatch.sourceCoordinates)
        potentialRouteGeometry == potentialMatch.routeGeometry
    IN  /\ ~IsNull(potentialSourceCoords)
        /\ ~IsNull(potentialRouteGeometry)
        /\ Len(Get(potentialRouteGeometry)) > 0
        /\ isAlongRoute(Get(potentialSourceCoords), Get(potentialRouteGeometry), THRESHOLD_KM)

Rule4(routeGeometry, potentialMatch) ==
    LET potentialSourceCoords == ParseCoords(potentialMatch.sourceCoordinates)
    IN  /\ ~IsNull(potentialSourceCoords)
        /\ ~IsNull(routeGeometry)
        /\ Len(Get(routeGeometry)) > 0
        /\ isAlongRoute(Get(potentialSourceCoords), Get(routeGeometry), THRESHOLD_KM)

Rule5(sanitizedData, potentialMatch) ==
    potentialMatch.travelDate = sanitizedData.travelDate

Rule6(sanitizedData, potentialMatch) ==
    toLowerCase(potentialMatch.transportMode) = toLowerCase(sanitizedData.transportMode)

\* the pass skipped when the new trip has no route
matchScore_needsRoute(sanitizedData, sourceCoords, destCoords, routeGeometry, potentialMatch) ==
    IF IsNull(routeGeometry) THEN 0
    ELSE Points(Rule1(sanitizedData, potentialMatch), SAME_DESTINATION_POINTS)
         + Points(Rule2(sourceCoords, potentialMatch), PICKUP_ALONG_ROUTE_POINTS)
         + Points(Rule3(destCoords, potentialMatch), DROPOFF_ALONG_ROUTE_POINTS)
         + Points(Rule4(routeGeometry, potentialMatch), ROUTES_OVERLAP_POINTS)
         + Points(Rule5(sanitizedData, potentialMatch), SAME_DATE_POINTS)
         + Points(Rule6(sanitizedData, potentialMatch), SAME_MODE_POINTS)

\* rule 5 written with = instead of +=
matchScore_overwrite(sanitizedData, sourceCoords, destCoords, routeGeometry, potentialMatch) ==
    LET s1 == IF Rule1(sanitizedData, potentialMatch)
              THEN SAME_DESTINATION_POINTS ELSE 0
        s2 == IF Rule2(sourceCoords, potentialMatch)
              THEN s1 + PICKUP_ALONG_ROUTE_POINTS ELSE s1
        s3 == IF Rule3(destCoords, potentialMatch)
              THEN s2 + DROPOFF_ALONG_ROUTE_POINTS ELSE s2
        s4 == IF Rule4(routeGeometry, potentialMatch)
              THEN s3 + ROUTES_OVERLAP_POINTS ELSE s3
        s5 == IF Rule5(sanitizedData, potentialMatch)
              THEN SAME_DATE_POINTS ELSE s4
        s6 == IF Rule6(sanitizedData, potentialMatch)
              THEN s5 + SAME_MODE_POINTS ELSE s5
    IN  s6

\* the loop body's matchScore after the six rules
matchScore(sanitizedData, sourceCoords, destCoords, routeGeometry, potentialMatch) ==
    LET s1 == IF Rule1(sanitizedData, potentialMatch)
              THEN SAME_DESTINATION_POINTS ELSE 0
        s2 == IF Rule2(sourceCoords, potentialMatch)
              THEN s1 + PICKUP_ALONG_ROUTE_POINTS ELSE s1
        s3 == IF Rule3(destCoords, potentialMatch)
              THEN s2 + DROPOFF_ALONG_ROUTE_POINTS ELSE s2
        s4 == IF Rule4(routeGeometry, potentialMatch)
              THEN s3 + ROUTES_OVERLAP_POINTS ELSE s3
        s5 == IF Rule5(sanitizedData, potentialMatch)
              THEN s4 + SAME_DATE_POINTS ELSE s4
        s6 == IF Rule6(sanitizedData, potentialMatch)
              THEN s5 + SAME_MODE_POINTS ELSE s5
    IN  s6

\* the loop body's matchReason: the tags, in the order they are appended
matchReason(sanitizedData, sourceCoords, destCoords, routeGeometry, potentialMatch) ==
    LET r1 == IF Rule1(sanitizedData, potentialMatch)
              THEN <<"same_destination">> ELSE << >>
        r2 == IF Rule2(sourceCoords, potentialMatch)
              THEN Append(r1, "pickup_along_route") ELSE r1
        r3 == IF Rule3(destCoords, potentialMatch)
              THEN Append(r2, "dropoff_along_route") ELSE r2
        r4 == IF Rule4(routeGeometry, potentialMatch)
              THEN Append(r3, "routes_overlap") ELSE r3
    IN  r4

PassesThreshold_inclusive(score) == score >= MATCH_THRESHOLD

\* "Only create matches with score > 50"
PassesThreshold(score) == score > MATCH_THRESHOLD

----------------------------------------------------------------------------
(* The store and the requests *)

VARIABLES
    trips,          \* table trips: id -> row
    tripMatches,    \* table trip_matches: id -> row
    groups,         \* table groups: id -> row
    groupMembers,   \* table group_members: id -> row
    nextTripId,     \* AUTOINCREMENT sequences of the four tables
    nextMatchId,
    nextGroupId,
    nextMemberId,
    now,            \* the clock: the value the next read of the time returns
    nEdits,         \* successful trip edits so far
    last,           \* the last request handled and its response
    inflight        \* the requests being handled: each one's position and locals

store == <<trips, tripMatches, groups, groupMembers>>
sequences == <<nextTripId, nextMatchId, nextGroupId, nextMemberId>>
vars == <<trips, tripMatches, groups, groupMembers, nextTripId, nextMatchId,
          nextGroupId, nextMemberId, now, nEdits, last, inflight>>

Users == {"u1", "u2"}
\* NULL: a request without a session
Callers == Users

SourceInputs == {"Lyon"}
DestinationInputs == {"Paris", " Rome ", "Atlantis"}
DateInputs == {"2025-06-01", "2025-06-02"}
ModeInputs == {"car", "bus"}

\* request bodies of trip creation
TripBodies ==
    [source: SourceInputs, destination: DestinationInputs,
     travelDate: DateInputs, travelTime: {"08:00"},
     transportMode: ModeInputs, optimizationMode: {"fastest"}]

GeocodeOutcomes == {"ok", "error"}
RouteOutcomes == {"ok", "error", "noroute"}
\* store faults of a trip creation: none, the trip insert, the candidate
\* query, the batch insert of the match records
TripFaults == {"none", "selectTrips", "insertMatches"}

NoScores == [c \in {} |-> 0]
NoReasons == [c \in {} |-> << >>]

\* a response; the request's parameters are recorded for the requests that
\* were carried out
Response(op, status, code) ==
    [op |-> op, status |-> status, code |-> code, caller |-> NULL,
     tripId |-> 0, matchId |-> 0, groupId |-> 0,
     routeSvc |-> NULL, matching |-> NULL, scores |-> NoScores,
     reasons |-> NoReasons, matchInserts |-> << >>]

Reject(op, status, code) ==
    /\ last' = Response(op, status, code)
    /\ UNCHANGED <<store, sequences, now, nEdits, inflight>>

Init ==
    /\ trips = << >>
    /\ tripMatches = << >>
    /\ groups = << >>
    /\ groupMembers = << >>
    /\ nextTripId = 1
    /\ nextMatchId = 1
    /\ nextGroupId = 1
    /\ nextMemberId = 1
    /\ now = 1
    /\ nEdits = 0
    /\ inflight = << >>
    /\ last = Response("init", 0, NULL)

\* the orders in which a query without ORDER BY may return the rows ids
Orders(ids) ==
    {o \in [1..Cardinality(ids) -> ids] :
        \A i, j \in 1..Cardinality(ids) : i # j => o[i] # o[j]}

\* rows appended to a table, with consecutive ids from nextId
InsertAll(table, nextId, rows) ==
    [id \in DOMAIN table \cup (nextId..(nextId + Len(rows) - 1)) |->
        IF id \in DOMAIN table THEN table[id] ELSE rows[id - nextId + 1]]

----------------------------------------------------------------------------
(* POST /api/trips *)

MissingRequiredFields(body) ==
    \/ ~Truthy(body.source)
    \/ ~Truthy(body.destination)
    \/ ~Truthy(body.travelDate)
    \/ ~Truthy(body.travelTime)
    \/ ~Truthy(body.transportMode)
    \/ ~Truthy(body.optimizationMode)

Sanitize(body) ==
    [source |-> trim(body.source), destination |-> trim(body.destination),
     travelDate |-> trim(body.travelDate), travelTime |-> trim(body.travelTime),
     transportMode |-> trim(body.transportMode),
     optimizationMode |-> trim(body.optimizationMode)]

NewTripRow(userId, sanitizedData, sourceCoords, destCoords, routeGeometry) ==
    [userId |-> userId,
     source |-> sanitizedData.source,
     destination |-> sanitizedData.destination,
     sourceCoordinates |-> FormatCoords(sourceCoords),
     destinationCoordinates |-> FormatCoords(destCoords),
     travelDate |-> sanitizedData.travelDate,
     travelTime |-> sanitizedData.travelTime,
     transportMode |-> sanitizedData.transportMode,
     optimizationMode |-> sanitizedData.optimizationMode,
     status |-> "active",
     routeGeometry |-> routeGeometry]

PotentialMatches_anyStatus(table, userId) ==
    {id \in DOMAIN table : table[id].userId # userId}

PotentialMatches_anyUser(table, userId) ==
    {id \in DOMAIN table : table[id].status = "active" /\ id # nextTripId}

\* "Find all active trips from other users"
PotentialMatches(table, userId) ==
    {id \in DOMAIN table :
        table[id].status = "active" /\ table[id].userId # userId}

MatchPair_oneDirection(createdTripId, potentialMatchId, score, matchTimestamp) ==
    << [tripId |-> createdTripId, matchedTripId |-> potentialMatchId,
        matchScore |-> score, status |-> "pending", createdAt |-> matchTimestamp] >>

\* the two records pushed for a candidate that passes
MatchPair(createdTripId, potentialMatchId, score, matchTimestamp) ==
    << [tripId |-> createdTripId, matchedTripId |-> potentialMatchId,
        matchScore |-> score, status |-> "pending", createdAt |-> matchTimestamp],
       [tripId |-> potentialMatchId, matchedTripId |-> createdTripId,
        matchScore |-> score, status |-> "pending", createdAt |-> matchTimestamp] >>

\* matchInserts after the loop over the candidates, taken in the order `order`
RECURSIVE BuildMatchInserts(_, _, _, _, _)
BuildMatchInserts(order, i, createdTripId, scores, matchTimestamp) ==
    IF i > Len(order) THEN << >>
    ELSE (IF PassesThreshold(scores[order[i]])
          THEN MatchPair(createdTripId, order[i], scores[order[i]], matchTimestamp)
          ELSE << >>)
         \o BuildMatchInserts(order, i + 1, createdTripId, scores, matchTimestamp)

SwallowMatchError_rethrow(response) ==
    [response EXCEPT !.status = 500, !.code = "INTERNAL_SERVER_ERROR"]

\* the catch block of the matching pass: the error is logged and the handler
\* goes on to answer with the created trip
SwallowMatchError(response) == response

\* the trip is stored; the matching pass runs inside its own try block
CreateAndMatch(userId, sanitizedData, sourceCoords, destCoords, routeGeometry, routeSvc, fault) ==
    LET createdTripId == nextTripId
        createdTrip   == NewTripRow(userId, sanitizedData, sourceCoords,
                                    destCoords, routeGeometry)
        stored        == InsertAll(trips, nextTripId, <<createdTrip>>)
        candidates    == PotentialMatches(stored, userId)
        scores        == [c \in candidates |->
                            matchScore(sanitizedData, sourceCoords, destCoords,
                                       routeGeometry, stored[c])]
        reasons       == [c \in candidates |->
                            matchReason(sanitizedData, sourceCoords, destCoords,
                                        routeGeometry, stored[c])]
        created(matching, sc, inserts) ==
            [Response("POST_trips", 201, "CREATED") EXCEPT
                !.caller = userId, !.tripId = createdTripId,
                !.routeSvc = routeSvc, !.matching = matching, !.scores = sc,
                !.reasons = [c \in DOMAIN sc |-> reasons[c]],
                !.matchInserts = inserts]
    IN  /\ trips' = stored
        /\ nextTripId' = nextTripId + 1
        /\ now' = now + 1
        /\ UNCHANGED <<groups, groupMembers, nextGroupId, nextMemberId, nEdits>>
        /\ IF fault = "selectTrips"
           THEN /\ last' = SwallowMatchError(created("failed", NoScores, << >>))
                /\ UNCHANGED <<tripMatches, nextMatchId>>
           ELSE \E order \in Orders(candidates) :
                LET matchTimestamp == now
                    matchInserts   == BuildMatchInserts(order, 1, createdTripId,
                                                        scores, matchTimestamp)
                IN  IF Len(matchInserts) > 0 /\ fault = "insertMatches"
                    THEN /\ last' = SwallowMatchError(
                                        created("failed", scores, matchInserts))
                         /\ UNCHANGED <<tripMatches, nextMatchId>>
                    ELSE /\ last' = created("ok", scores, matchInserts)
                         /\ tripMatches' = InsertAll(tripMatches, nextMatchId,
                                                     matchInserts)
                         /\ nextMatchId' = nextMatchId + Len(matchInserts)

GeocodingFailed_sourceOnly(sourceCoords, destCoords) == IsNull(sourceCoords)

\* "if (!sourceCoords || !destCoords)"
GeocodingFailed(sourceCoords, destCoords) ==
    IsNull(sourceCoords) \/ IsNull(destCoords)

\* the checks before anything is stored, in the handler's order; the code of
\* the error answer, or "OK" when the request goes on to the inserts
ValidateTrip(caller, userIdInBody, body, srcSvc, dstSvc) ==
    IF caller = NULL THEN "AUTHENTICATION_REQUIRED"
    ELSE IF userIdInBody THEN "USER_ID_NOT_ALLOWED"
    ELSE IF MissingRequiredFields(body) THEN "MISSING_REQUIRED_FIELDS"
    ELSE LET sanitizedData == Sanitize(body)
             sourceCoords  == geocode(sanitizedData.source, srcSvc)
             destCoords    == geocode(sanitizedData.destination, dstSvc)
         IN  IF GeocodingFailed(sourceCoords, destCoords)
             THEN "GEOCODING_FAILED"
             ELSE "OK"

TripErrorStatus(code) == IF code = "AUTHENTICATION_REQUIRED" THEN 401 ELSE 400

\* POST handler: an early error answer, or the inserts and the matching pass
POST_trips(callers, bodies, maxTrips) ==
    \/ \E code \in {ValidateTrip(caller, userIdInBody, body, srcSvc, dstSvc) :
                       caller \in callers, userIdInBody \in {FALSE},
                       body \in bodies, srcSvc \in GeocodeOutcomes,
                       dstSvc \in GeocodeOutcomes} \ {"OK"} :
          Reject("POST_trips", TripErrorStatus(code), code)
    \/ /\ nextTripId <= maxTrips
       /\ \E caller \in callers, body \in bodies,
             srcSvc \in GeocodeOutcomes, dstSvc \in GeocodeOutcomes :
            /\ ValidateTrip(caller, FALSE, body, srcSvc, dstSvc) = "OK"
            /\ \E routeSvc \in RouteOutcomes, fault \in TripFaults :
                 LET sanitizedData == Sanitize(body)
                     sourceCoords  == geocode(sanitizedData.source, srcSvc)
                     destCoords    == geocode(sanitizedData.destination, dstSvc)
                     route == calculateRouteGeometry(sourceCoords, destCoords,
                                  sanitizedData.transportMode, routeSvc)
                     routeGeometry == IF ~IsNull(route)
                                      THEN Some(Get(route).coordinates)
                                      ELSE None
                 IN  IF fault = "insertTrip"
                     THEN Reject("POST_trips", 500, "INTERNAL_SERVER_ERROR")
                     ELSE /\ CreateAndMatch(caller, sanitizedData, sourceCoords,
                                            destCoords, routeGeometry, routeSvc,
                                            fault)
                          /\ UNCHANGED inflight

----------------------------------------------------------------------------
(* PUT /api/trips/[id] *)

\* ids a request may name
TripIdInputs == 1..MaxTrips

\* request bodies of a trip edit: the fields present, with their values
PutBodies ==
    {[f \in {"status"} |-> v] : v \in {"active", "cancelled", "completed"}}
    \cup {[f \in {"source", "destination", "travelDate", "transportMode"} |->
             CASE f = "source" -> "Nice"
               [] f = "destination" -> "Rome"
               [] f = "travelDate" -> "2025-06-02"
               [] OTHER -> "bus"]}

allowedFields ==
    {"status", "source", "destination", "travelDate", "travelTime",
     "transportMode", "optimizationMode", "routeData"}

\* an edit that also drops the stored route
ApplyUpdates_clearRoute(row, updateData) ==
    [f \in DOMAIN row |->
        IF f = "routeGeometry" THEN None
        ELSE IF f \in allowedFields /\ f \in DOMAIN updateData
        THEN updateData[f] ELSE row[f]]

\* the row after .set(updates)
ApplyUpdates(row, updateData) ==
    [f \in DOMAIN row |->
        IF f \in allowedFields /\ f \in DOMAIN updateData
        THEN updateData[f] ELSE row[f]]

PUT_trip(callers, ids, bodies) ==
    \E caller \in callers :
      IF caller = NULL
      THEN Reject("PUT_trip", 401, "UNAUTHORIZED")
      ELSE \E tripId \in ids :
        IF tripId \notin DOMAIN trips
        THEN Reject("PUT_trip", 404, "TRIP_NOT_FOUND")
        ELSE IF trips[tripId].userId # caller
        THEN Reject("PUT_trip", 403, "FORBIDDEN")
        ELSE \E updateData \in bodies :
          /\ nEdits < MaxEdits
          /\ trips' = [trips EXCEPT ![tripId] = ApplyUpdates(@, updateData)]
          /\ nEdits' = nEdits + 1
          /\ last' = [Response("PUT_trip", 200, "OK") EXCEPT
                         !.caller = caller, !.tripId = tripId]
          /\ UNCHANGED <<tripMatches, groups, groupMembers, sequences, now, inflight>>

----------------------------------------------------------------------------
(* DELETE /api/trips/[id] *)

CascadeMatches_subjectOnly(table, tripId) ==
    [id \in {m \in DOMAIN table : table[m].tripId # tripId} |-> table[id]]

\* the cascade on matched_trip_id alone
CascadeMatches_candidateOnly(table, tripId) ==
    [id \in {m \in DOMAIN table : table[m].matchedTripId # tripId} |-> table[id]]

\* trip_matches.trip_id and matched_trip_id: ON DELETE cascade
CascadeMatches(table, tripId) ==
    [id \in {m \in DOMAIN table :
                table[m].tripId # tripId /\ table[m].matchedTripId # tripId}
        |-> table[id]]

\* groups.trip_id: ON DELETE set null
SetNullGroups(table, tripId) ==
    [id \in DOMAIN table |->
        IF table[id].tripId = Some(tripId)
        THEN [table[id] EXCEPT !.tripId = None] ELSE table[id]]

DELETE_trip(callers, ids) ==
    \E caller \in callers :
      IF caller = NULL
      THEN Reject("DELETE_trip", 401, "UNAUTHORIZED")
      ELSE \E tripId \in ids :
        IF tripId \notin DOMAIN trips
        THEN Reject("DELETE_trip", 404, "TRIP_NOT_FOUND")
        ELSE IF trips[tripId].userId # caller
        THEN Reject("DELETE_trip", 403, "FORBIDDEN")
        ELSE
          /\ trips' = [id \in DOMAIN trips \ {tripId} |-> trips[id]]
          /\ tripMatches' = CascadeMatches(tripMatches, tripId)
          /\ groups' = SetNullGroups(groups, tripId)
          /\ last' = [Response("DELETE_trip", 200, "OK") EXCEPT
                         !.caller = caller, !.tripId = tripId]
          /\ UNCHANGED <<groupMembers, sequences, now, nEdits, inflight>>

----------------------------------------------------------------------------
(* POST /api/trips/[id]/accept-match *)

\* match ids a request may name
MatchIdInputs == 1..(2 * MaxTrips)

AcceptBothDirections_oneDirection(table, tripId, matchedTripId) ==
    [id \in DOMAIN table |->
        IF table[id].tripId = tripId /\ table[id].matchedTripId = matchedTripId
        THEN [table[id] EXCEPT !.status = "accepted"] ELSE table[id]]

\* every record of the subject trip is accepted
AcceptBothDirections_wholeTrip(table, tripId, matchedTripId) ==
    [id \in DOMAIN table |->
        IF table[id].tripId = tripId \/ table[id].matchedTripId = tripId
        THEN [table[id] EXCEPT !.status = "accepted"] ELSE table[id]]

\* accepting again takes the acceptance back
AcceptBothDirections_toggle(table, tripId, matchedTripId) ==
    [id \in DOMAIN table |->
        IF \/ table[id].tripId = tripId /\ table[id].matchedTripId = matchedTripId
           \/ table[id].tripId = matchedTripId /\ table[id].matchedTripId = tripId
        THEN [table[id] EXCEPT !.status =
                 IF @ = "pending" THEN "accepted" ELSE "pending"]
        ELSE table[id]]

\* both directional records of the pair set to accepted
AcceptBothDirections(table, tripId, matchedTripId) ==
    [id \in DOMAIN table |->
        IF \/ table[id].tripId = tripId /\ table[id].matchedTripId = matchedTripId
           \/ table[id].tripId = matchedTripId /\ table[id].matchedTripId = tripId
        THEN [table[id] EXCEPT !.status = "accepted"] ELSE table[id]]

\* "Check if a group already exists for either trip"
ExistingGroups(table, tripId, matchedTripId) ==
    {g \in DOMAIN table :
        table[g].tripId = Some(tripId) \/ table[g].tripId = Some(matchedTripId)}

IsMember_never(table, groupId, userId) == FALSE

\* "Check if user is already a member"
IsMember(table, groupId, userId) ==
    \E m \in DOMAIN table :
        table[m].groupId = groupId /\ table[m].userId = userId

\* the check compares the membership row's id with the user
AlreadyMember_wrongColumn(table, groupId, userId) ==
    \E m \in DOMAIN table : table[m].groupId = groupId /\ table[m].role = userId

\* the membership check of join and invite
AlreadyMember(table, groupId, userId) ==
    \E m \in DOMAIN table :
        table[m].groupId = groupId /\ table[m].userId = userId

MemberRow_alwaysMember(groupId, userId, role) ==
    [groupId |-> groupId, userId |-> userId, role |-> "member"]

\* a row of group_members
MemberRow(groupId, userId, role) ==
    [groupId |-> groupId, userId |-> userId, role |-> role]

\* the statements after the ownership and match checks
AcceptMatch(userId, tripId, matchId) ==
    LET trip          == trips[tripId]
        matchedTripId == tripMatches[matchId].matchedTripId
        accepted(status, code, groupId) ==
            [Response("POST_accept", status, code) EXCEPT
                !.caller = userId, !.tripId = tripId, !.matchId = matchId,
                !.groupId = groupId]
    IN  /\ tripMatches' = AcceptBothDirections(tripMatches, tripId, matchedTripId)
        /\ UNCHANGED <<trips, nextTripId, nextMatchId, now, nEdits, inflight>>
        /\ IF matchedTripId \notin DOMAIN trips
           THEN /\ last' = accepted(404, "MATCHED_TRIP_NOT_FOUND", 0)
                /\ UNCHANGED <<groups, groupMembers, nextGroupId, nextMemberId>>
           ELSE LET matchedUserId == trips[matchedTripId].userId
                    existingGroup == ExistingGroups(groups, tripId, matchedTripId)
                IN  IF existingGroup # {}
                    THEN \E group \in existingGroup :
                        /\ last' = accepted(200, "OK", group)
                        /\ UNCHANGED <<groups, nextGroupId>>
                        /\ IF ~IsMember(groupMembers, group, userId)
                           THEN /\ groupMembers' = InsertAll(groupMembers, nextMemberId,
                                        <<MemberRow(group, userId, "member")>>)
                                /\ nextMemberId' = nextMemberId + 1
                           ELSE UNCHANGED <<groupMembers, nextMemberId>>
                    ELSE LET group == nextGroupId
                         IN /\ groups' = InsertAll(groups, nextGroupId,
                                   << [name |-> <<"Trip to", trip.destination,
                                                  trip.travelDate>>,
                                       tripId |-> Some(tripId),
                                       createdBy |-> userId,
                                       status |-> "active"] >>)
                            /\ nextGroupId' = nextGroupId + 1
                            /\ groupMembers' = InsertAll(groupMembers, nextMemberId,
                                   <<MemberRow(group, userId, "admin"),
                                     MemberRow(group, matchedUserId, "member")>>)
                            /\ nextMemberId' = nextMemberId + 2
                            /\ last' = accepted(201, "CREATED", group)

\* "Verify the trip belongs to the authenticated user"
OwnsTrip(trip, userId) == trip.userId = userId

MatchBelongsToTrip_any(matchRecord, tripId) == TRUE

\* "Verify the match belongs to the user's trip"
MatchBelongsToTrip(matchRecord, tripId) == matchRecord.tripId = tripId

\* the checks before the first write, in the handler's order; the code of
\* the error answer, or "OK" when the request goes on to the updates
ValidateAccept(caller, tripId, matchId) ==
    IF caller = NULL THEN "AUTHENTICATION_REQUIRED"
    ELSE IF tripId \notin DOMAIN trips THEN "TRIP_NOT_FOUND"
    ELSE IF ~OwnsTrip(trips[tripId], caller) THEN "FORBIDDEN"
    ELSE IF matchId \notin DOMAIN tripMatches THEN "MATCH_NOT_FOUND"
    ELSE IF ~MatchBelongsToTrip(tripMatches[matchId], tripId) THEN "MATCH_MISMATCH"
    ELSE "OK"

AcceptErrorStatus(code) ==
    CASE code = "AUTHENTICATION_REQUIRED" -> 401
      [] code = "FORBIDDEN" -> 403
      [] code = "MATCH_MISMATCH" -> 400
      [] OTHER -> 404

\* POST handler: an early error answer, or the updates and the group
POST_accept(callers, ids, matchIds) ==
    \/ \E code \in {ValidateAccept(caller, tripId, matchId) :
                       caller \in callers, tripId \in ids,
                       matchId \in matchIds} \ {"OK"} :
          Reject("POST_accept", AcceptErrorStatus(code), code)
    \/ \E caller \in callers, tripId \in ids, matchId \in matchIds :
          /\ ValidateAccept(caller, tripId, matchId) = "OK"
          /\ AcceptMatch(caller, tripId, matchId)

----------------------------------------------------------------------------

Next ==
    \/ POST_trips(Callers, TripBodies, MaxTrips)
    \/ PUT_trip(Callers, TripIdInputs, PutBodies)
    \/ DELETE_trip(Callers, TripIdInputs)
    \/ POST_accept(Callers, TripIdInputs, MatchIdInputs)

Spec == Init /\ [][Next]_vars

----------------------------------------------------------------------------
(* Scoring on its own: a stored candidate row (id 1) and a subject (id 2)   *)
(* drawn from the sets below, and one step that scores the pair as the      *)
(* matching pass does.                                                      *)

ScorePlaces == {None} \cup {Some([lat |-> x, lon |-> 90]) : x \in {0, 5, 6, 26}}

ScorePolylines ==
    {None, Some(<< >>),
     Some(<< <<0, 90>>, <<20, 90>> >>),
     Some(<< <<11, 90>>, <<31, 90>>, <<40, 90>> >>)}

ScoreRow(destination, travelDate, transportMode, sourceCoordinates, destinationCoordinates, routeGeometry) ==
    [userId |-> "u1", source |-> "Lyon", destination |-> destination,
     sourceCoordinates |-> sourceCoordinates,
     destinationCoordinates |-> destinationCoordinates,
     travelDate |-> travelDate, travelTime |-> "08:00",
     transportMode |-> transportMode, optimizationMode |-> "fastest",
     status |-> "active", routeGeometry |-> routeGeometry]

CandidateRows ==
    {ScoreRow(d, t, m, s, None, g) :
        d \in {"Paris", "PARIS", "Rome"}, t \in DateInputs,
        m \in {"car", "Car", "bus"}, s \in ScorePlaces, g \in ScorePolylines}

SubjectRows ==
    {ScoreRow(d, "2025-06-01", "car", s, e, g) :
        d \in {"Paris", "Rome"}, s \in ScorePlaces, e \in ScorePlaces,
        g \in ScorePolylines}

InitScore ==
    /\ \E candidate \in CandidateRows, subject \in SubjectRows :
          trips = <<candidate, [subject EXCEPT !.userId = "u2"]>>
    /\ tripMatches = << >>
    /\ groups = << >>
    /\ groupMembers = << >>
    /\ nextTripId = 3
    /\ nextMatchId = 1
    /\ nextGroupId = 1
    /\ nextMemberId = 1
    /\ now = 1
    /\ nEdits = 0
    /\ inflight = << >>
    /\ last = Response("init", 0, NULL)

\* the loop body of the matching pass for the subject 2 and the candidate 1
ScorePair ==
    /\ last.op = "init"
    /\ LET subject == trips[2]
           score   == matchScore(subject, ParseCoords(subject.sourceCoordinates),
                          ParseCoords(subject.destinationCoordinates),
                          subject.routeGeometry, trips[1])
           reason  == matchReason(subject, ParseCoords(subject.sourceCoordinates),
                          ParseCoords(subject.destinationCoordinates),
                          subject.routeGeometry, trips[1])
       IN  last' = [Response("score", 0, NULL) EXCEPT
                       !.caller = subject.userId, !.tripId = 2,
                       !.scores = [c \in {1} |-> score],
                       !.reasons = [c \in {1} |-> reason]]
    /\ UNCHANGED <<store, sequences, now, nEdits, inflight>>

NextScore == ScorePair

SpecScore == InitScore /\ [][NextScore]_vars

----------------------------------------------------------------------------
(* Groups: direct creation, join, invite and accept-match, from a store    *)
(* that three trip creations have filled.                                  *)

GroupUsers == {"u1", "u2", "u3"}

\* the owners of the trips 1, 2, 3 of the store the group requests start from
SeedOwners == {<<"u1", "u2", "u3">>}

SeedBody ==
    [source |-> "Lyon", destination |-> "Paris", travelDate |-> "2025-06-01",
     travelTime |-> "08:00", transportMode |-> "car",
     optimizationMode |-> "fastest"]

\* the row POST /api/trips stores for SeedBody when both services answer
SeedTrip(owner) ==
    LET sanitizedData == Sanitize(SeedBody)
        sourceCoords  == geocode(sanitizedData.source, "ok")
        destCoords    == geocode(sanitizedData.destination, "ok")
        route         == calculateRouteGeometry(sourceCoords, destCoords,
                             sanitizedData.transportMode, "ok")
    IN  NewTripRow(owner, sanitizedData, sourceCoords, destCoords,
                   Some(Get(route).coordinates))

SeedTrips(owners, k) == [i \in 1..k |-> SeedTrip(owners[i])]

\* the records the matching pass of the creation of trip k inserts
SeedInserts(owners, k) ==
    LET stored     == SeedTrips(owners, k)
        created    == stored[k]
        candidates == PotentialMatches(stored, owners[k])
        scores     == [c \in candidates |->
                          matchScore(created, ParseCoords(created.sourceCoordinates),
                              ParseCoords(created.destinationCoordinates),
                              created.routeGeometry, stored[c])]
        order      == CHOOSE o \in Orders(candidates) :
                          \A i, j \in DOMAIN o : i < j => o[i] < o[j]
    IN  BuildMatchInserts(order, 1, k, scores, k)

RECURSIVE SeedMatches(_, _)
SeedMatches(owners, k) ==
    IF k = 0 THEN << >>
    ELSE SeedMatches(owners, k - 1) \o SeedInserts(owners, k)

InitGroups ==
    /\ \E owners \in SeedOwners :
          /\ trips = SeedTrips(owners, 3)
          /\ tripMatches = SeedMatches(owners, 3)
          /\ nextMatchId = Len(SeedMatches(owners, 3)) + 1
    /\ groups = << >>
    /\ groupMembers = << >>
    /\ nextTripId = 4
    /\ nextGroupId = 1
    /\ nextMemberId = 1
    /\ now = 4
    /\ nEdits = 0
    /\ inflight = << >>
    /\ last = Response("init", 0, NULL)

\* request bodies of a direct group creation
GroupNameInputs == {"Weekend", "  "}
GroupTripInputs == {None, Some(1)}

\* the groups that POST /api/groups created: accept-match names its groups
\* "Trip to ..."
DirectGroups(table) == {g \in DOMAIN table : table[g].name[1] # "Trip to"}

\* the checks of a direct group creation before the inserts
ValidateGroup(caller, name, tripId) ==
    IF caller = NULL THEN "UNAUTHENTICATED"
    ELSE IF ~Truthy(name) \/ trim(name) = "" THEN "MISSING_NAME"
    ELSE IF ~IsNull(tripId) /\ Get(tripId) \notin DOMAIN trips
    THEN "INTERNAL_SERVER_ERROR"
    ELSE "OK"

GroupErrorStatus(code) ==
    CASE code = "UNAUTHENTICATED" -> 401
      [] code = "MISSING_NAME" -> 400
      [] OTHER -> 500

\* POST /api/groups: the group and its creator as admin
POST_groups(callers, names, tripIds, maxGroups) ==
    \/ \E code \in {ValidateGroup(caller, name, tripId) :
                       caller \in callers, name \in names,
                       tripId \in tripIds} \ {"OK"} :
          Reject("POST_groups", GroupErrorStatus(code), code)
    \/ /\ Cardinality(DirectGroups(groups)) < maxGroups
       /\ \E caller \in callers, name \in names, tripId \in tripIds :
          /\ ValidateGroup(caller, name, tripId) = "OK"
          /\ groups' = InsertAll(groups, nextGroupId,
                 << [name |-> <<trim(name)>>, tripId |-> tripId,
                     createdBy |-> caller, status |-> "active"] >>)
          /\ nextGroupId' = nextGroupId + 1
          /\ groupMembers' = InsertAll(groupMembers, nextMemberId,
                 <<MemberRow(nextGroupId, caller, "admin")>>)
          /\ nextMemberId' = nextMemberId + 1
          /\ last' = [Response("POST_groups", 201, "CREATED") EXCEPT
                         !.caller = caller, !.groupId = nextGroupId]
          /\ UNCHANGED <<trips, tripMatches, nextTripId, nextMatchId, now, nEdits, inflight>>

\* group ids a request may name
GroupIdInputs == 1..(MaxGroups + 1)

\* the checks of a join before the insert
ValidateJoin(caller, groupId) ==
    IF caller = NULL THEN "UNAUTHORIZED"
    ELSE IF groupId \notin DOMAIN groups THEN "GROUP_NOT_FOUND"
    ELSE IF AlreadyMember(groupMembers, groupId, caller) THEN "ALREADY_MEMBER"
    ELSE "OK"

JoinErrorStatus(code) ==
    CASE code = "UNAUTHORIZED" -> 401
      [] code = "GROUP_NOT_FOUND" -> 404
      [] OTHER -> 400

\* POST /api/groups/[id]/join
POST_join(callers, groupIds) ==
    \/ \E code \in {ValidateJoin(caller, groupId) :
                       caller \in callers, groupId \in groupIds} \ {"OK"} :
          Reject("POST_join", JoinErrorStatus(code), code)
    \/ \E caller \in callers, groupId \in groupIds :
          /\ ValidateJoin(caller, groupId) = "OK"
          /\ nextMemberId <= MaxMembers
          /\ groupMembers' = InsertAll(groupMembers, nextMemberId,
                 <<MemberRow(groupId, caller, "member")>>)
          /\ nextMemberId' = nextMemberId + 1
          /\ last' = [Response("POST_join", 201, "CREATED") EXCEPT
                         !.caller = caller, !.groupId = groupId]
          /\ UNCHANGED <<trips, tripMatches, groups, nextTripId, nextMatchId,
                         nextGroupId, now, nEdits, inflight>>

\* "Check if current user is an admin of this group"
IsAdmin(table, groupId, userId) ==
    \E m \in DOMAIN table :
        /\ table[m].groupId = groupId
        /\ table[m].userId = userId
        /\ table[m].role = "admin"

\* the checks of an invite before the insert
ValidateInvite(caller, groupId, invitedUserId, userTable) ==
    IF caller = NULL THEN "AUTHENTICATION_REQUIRED"
    ELSE IF ~Truthy(invitedUserId) THEN "MISSING_USER_ID"
    ELSE IF groupId \notin DOMAIN groups THEN "GROUP_NOT_FOUND"
    ELSE IF ~IsAdmin(groupMembers, groupId, caller) THEN "ADMIN_ACCESS_REQUIRED"
    ELSE IF invitedUserId \notin userTable THEN "USER_NOT_FOUND"
    ELSE IF AlreadyMember(groupMembers, groupId, invitedUserId) THEN "ALREADY_MEMBER"
    ELSE "OK"

InviteErrorStatus(code) ==
    CASE code = "AUTHENTICATION_REQUIRED" -> 401
      [] code = "ADMIN_ACCESS_REQUIRED" -> 403
      [] code \in {"GROUP_NOT_FOUND", "USER_NOT_FOUND"} -> 404
      [] OTHER -> 400

\* POST /api/groups/[id]/invite
POST_invite(callers, groupIds, invitedUserIds, userTable) ==
    \/ \E code \in {ValidateInvite(caller, groupId, invitedUserId, userTable) :
                       caller \in callers, groupId \in groupIds,
                       invitedUserId \in invitedUserIds} \ {"OK"} :
          Reject("POST_invite", InviteErrorStatus(code), code)
    \/ \E caller \in callers, groupId \in groupIds,
          invitedUserId \in invitedUserIds :
          /\ ValidateInvite(caller, groupId, invitedUserId, userTable) = "OK"
          /\ nextMemberId <= MaxMembers
          /\ groupMembers' = InsertAll(groupMembers, nextMemberId,
                 <<MemberRow(groupId, invitedUserId, "member")>>)
          /\ nextMemberId' = nextMemberId + 1
          /\ last' = [Response("POST_invite", 200, "OK") EXCEPT
                         !.caller = caller, !.groupId = groupId]
          /\ UNCHANGED <<trips, tripMatches, groups, nextTripId, nextMatchId,
                         nextGroupId, now, nEdits, inflight>>

NextGroups ==
    \/ POST_accept(GroupUsers, 1..3, 1..6)
    \/ POST_groups(GroupUsers, GroupNameInputs, GroupTripInputs, MaxGroups)
    \/ POST_join(GroupUsers, GroupIdInputs)
    \/ POST_invite(GroupUsers, GroupIdInputs, GroupUsers, GroupUsers)

SpecGroups == InitGroups /\ [][NextGroups]_vars

----------------------------------------------------------------------------
(* Two trip creations handled at the same time. A handler runs until its    *)
(* next await of the database, where the other handler may run: the insert  *)
(* of the trip, the query of the candidates and the batch insert of the     *)
(* match records are three steps.                                           *)

RaceCallers == <<"u1", "u2">>

RaceBodies ==
    [source: SourceInputs, destination: {"Paris", " Rome "},
     travelDate: DateInputs, travelTime: {"08:00"},
     transportMode: {"car"}, optimizationMode: {"fastest"}]

\* a creation request that has passed its checks, before its first insert
TripRequest(caller, body) ==
    [pc |-> "insertTrip", caller |-> caller, body |-> body, tripId |-> 0,
     potentialMatches |-> << >>, matchTimestamp |-> 0]

InitRace ==
    /\ trips = << >>
    /\ tripMatches = << >>
    /\ groups = << >>
    /\ groupMembers = << >>
    /\ nextTripId = 1
    /\ nextMatchId = 1
    /\ nextGroupId = 1
    /\ nextMemberId = 1
    /\ now = 1
    /\ nEdits = 0
    /\ last = Response("init", 0, NULL)
    /\ \E b1 \in RaceBodies, b2 \in RaceBodies :
          inflight = <<TripRequest(RaceCallers[1], b1),
                       TripRequest(RaceCallers[2], b2)>>

\* the handler's locals, computed before the insert of the trip
RouteOf(body) ==
    LET sanitizedData == Sanitize(body)
        sourceCoords  == geocode(sanitizedData.source, "ok")
        destCoords    == geocode(sanitizedData.destination, "ok")
        route         == calculateRouteGeometry(sourceCoords, destCoords,
                             sanitizedData.transportMode, "ok")
    IN  [sanitizedData |-> sanitizedData, sourceCoords |-> sourceCoords,
         destCoords |-> destCoords,
         routeGeometry |-> Some(Get(route).coordinates)]

\* "Create trip": db.insert(trips)
InsertTripStep(r) ==
    /\ inflight[r].pc = "insertTrip"
    /\ LET l == RouteOf(inflight[r].body)
       IN  trips' = InsertAll(trips, nextTripId,
               <<NewTripRow(inflight[r].caller, l.sanitizedData, l.sourceCoords,
                            l.destCoords, l.routeGeometry)>>)
    /\ nextTripId' = nextTripId + 1
    /\ now' = now + 1
    /\ inflight' = [inflight EXCEPT ![r].pc = "selectTrips",
                                    ![r].tripId = nextTripId]
    /\ UNCHANGED <<tripMatches, groups, groupMembers, nextMatchId, nextGroupId,
                   nextMemberId, nEdits, last>>

\* "Find all active trips from other users", and the timestamp of the pass
SelectTripsStep(r) ==
    /\ inflight[r].pc = "selectTrips"
    /\ inflight' = [inflight EXCEPT
           ![r].pc = "insertMatches",
           ![r].potentialMatches =
               [c \in PotentialMatches(trips, inflight[r].caller) |-> trips[c]],
           ![r].matchTimestamp = now]
    /\ UNCHANGED <<store, sequences, now, nEdits, last>>

\* the loop over the rows read, the batch insert and the answer
InsertMatchesStep(r) ==
    /\ inflight[r].pc = "insertMatches"
    /\ LET l            == RouteOf(inflight[r].body)
           rows         == inflight[r].potentialMatches
           scores       == [c \in DOMAIN rows |->
                               matchScore(l.sanitizedData, l.sourceCoords,
                                   l.destCoords, l.routeGeometry, rows[c])]
       IN  \E order \in Orders(DOMAIN rows) :
             LET matchInserts == BuildMatchInserts(order, 1, inflight[r].tripId,
                                     scores, inflight[r].matchTimestamp)
             IN  /\ tripMatches' = InsertAll(tripMatches, nextMatchId, matchInserts)
                 /\ nextMatchId' = nextMatchId + Len(matchInserts)
                 /\ last' = [Response("POST_trips", 201, "CREATED") EXCEPT
                                !.caller = inflight[r].caller,
                                !.tripId = inflight[r].tripId,
                                !.routeSvc = "ok", !.matching = "ok",
                                !.scores = scores,
                                !.matchInserts = matchInserts]
    /\ inflight' = [inflight EXCEPT ![r].pc = "done"]
    /\ UNCHANGED <<trips, groups, groupMembers, nextTripId, nextGroupId,
                   nextMemberId, now, nEdits>>

NextRace ==
    \/ \E r \in DOMAIN inflight : InsertTripStep(r)
    \/ \E r \in DOMAIN inflight : SelectTripsStep(r)
    \/ \E r \in DOMAIN inflight : InsertMatchesStep(r)

SpecRace == InitRace /\ [][NextRace]_vars

----------------------------------------------------------------------------
(* Requests that add the same user to the same group, handled at the same   *)
(* time: a join, an invite and an accept-match each query the membership    *)
(* and then insert; another handler may run between the two.                *)

\* the kinds of the requests in flight: u3 joins group 1, the admin u1
\* invites u3 to group 1, u3 accepts its record 3 -> 1
MemberRequestKinds == {"join", "invite", "accept"}

MemberRequest(kind) ==
    [pc |-> "check", kind |-> kind,
     caller |-> IF kind = "invite" THEN "u1" ELSE "u3",
     userId |-> "u3", groupId |-> IF kind = "accept" THEN 0 ELSE 1,
     tripId |-> 3, matchId |-> 3]

\* the store after the three creations of the seed and u1's accept of 1 -> 2
InitMemberRace ==
    /\ trips = SeedTrips(<<"u1", "u2", "u3">>, 3)
    /\ tripMatches = AcceptBothDirections(SeedMatches(<<"u1", "u2", "u3">>, 3), 1, 2)
    /\ nextMatchId = Len(SeedMatches(<<"u1", "u2", "u3">>, 3)) + 1
    /\ groups = << [name |-> <<"Trip to", "Paris", "2025-06-01">>,
                    tripId |-> Some(1), createdBy |-> "u1",
                    status |-> "active"] >>
    /\ groupMembers = <<MemberRow(1, "u1", "admin"), MemberRow(1, "u2", "member")>>
    /\ nextTripId = 4
    /\ nextGroupId = 2
    /\ nextMemberId = 3
    /\ now = 5
    /\ nEdits = 0
    /\ last = Response("init", 0, NULL)
    /\ \E k1 \in MemberRequestKinds, k2 \in MemberRequestKinds,
          k3 \in MemberRequestKinds :
          inflight = <<MemberRequest(k1), MemberRequest(k2), MemberRequest(k3)>>

\* the request either goes on to its insert or is answered
AfterCheck(r, op, code, errorStatus, groupId) ==
    IF code = "OK"
    THEN /\ inflight' = [inflight EXCEPT ![r].pc = "insert", ![r].groupId = groupId]
         /\ UNCHANGED last
    ELSE /\ inflight' = [inflight EXCEPT ![r].pc = "done"]
         /\ last' = Response(op, errorStatus, code)

\* join: the group lookup and "Check if user is already a member"
JoinCheckStep(r) ==
    /\ inflight[r].pc = "check" /\ inflight[r].kind = "join"
    /\ LET code == ValidateJoin(inflight[r].caller, inflight[r].groupId)
       IN  AfterCheck(r, "POST_join", code, JoinErrorStatus(code), inflight[r].groupId)
    /\ UNCHANGED <<store, sequences, now, nEdits>>

\* invite: the lookups and "Check if user is already a member"
InviteCheckStep(r) ==
    /\ inflight[r].pc = "check" /\ inflight[r].kind = "invite"
    /\ LET code == ValidateInvite(inflight[r].caller, inflight[r].groupId,
                       inflight[r].userId, GroupUsers)
       IN  AfterCheck(r, "POST_invite", code, InviteErrorStatus(code),
                      inflight[r].groupId)
    /\ UNCHANGED <<store, sequences, now, nEdits>>

\* accept-match up to its membership query: the checks, the two updates, the
\* lookup of an existing group and "Check if user is already a member"
AcceptCheckStep(r) ==
    /\ inflight[r].pc = "check" /\ inflight[r].kind = "accept"
    /\ ValidateAccept(inflight[r].caller, inflight[r].tripId, inflight[r].matchId) = "OK"
    /\ LET tripId        == inflight[r].tripId
           matchedTripId == tripMatches[inflight[r].matchId].matchedTripId
           existingGroup == ExistingGroups(groups, tripId, matchedTripId)
       IN  /\ tripMatches' = AcceptBothDirections(tripMatches, tripId, matchedTripId)
           /\ \E group \in existingGroup :
                IF ~IsMember(groupMembers, group, inflight[r].caller)
                THEN /\ inflight' = [inflight EXCEPT ![r].pc = "insert",
                                                     ![r].groupId = group]
                     /\ UNCHANGED last
                ELSE /\ inflight' = [inflight EXCEPT ![r].pc = "done",
                                                     ![r].groupId = group]
                     /\ last' = [Response("POST_accept", 200, "OK") EXCEPT
                                    !.caller = inflight[r].caller,
                                    !.tripId = tripId,
                                    !.matchId = inflight[r].matchId,
                                    !.groupId = group]
    /\ UNCHANGED <<trips, groups, groupMembers, sequences, now, nEdits>>

\* the insert into group_members and the answer
MemberInsertStep(r, kind, op, status, code) ==
    /\ inflight[r].pc = "insert" /\ inflight[r].kind = kind
    /\ groupMembers' = InsertAll(groupMembers, nextMemberId,
           <<MemberRow(inflight[r].groupId, inflight[r].userId, "member")>>)
    /\ nextMemberId' = nextMemberId + 1
    /\ inflight' = [inflight EXCEPT ![r].pc = "done"]
    /\ last' = [Response(op, status, code) EXCEPT
                   !.caller = inflight[r].caller,
                   !.groupId = inflight[r].groupId]
    /\ UNCHANGED <<trips, tripMatches, groups, nextTripId, nextMatchId,
                   nextGroupId, now, nEdits>>

JoinInsertStep(r) == MemberInsertStep(r, "join", "POST_join", 201, "CREATED")
InviteInsertStep(r) == MemberInsertStep(r, "invite", "POST_invite", 200, "OK")
AcceptInsertStep(r) == MemberInsertStep(r, "accept", "POST_accept", 200, "OK")

NextMemberRace ==
    \/ \E r \in DOMAIN inflight : JoinCheckStep(r)
    \/ \E r \in DOMAIN inflight : JoinInsertStep(r)
    \/ \E r \in DOMAIN inflight : InviteCheckStep(r)
    \/ \E r \in DOMAIN inflight : InviteInsertStep(r)
    \/ \E r \in DOMAIN inflight : AcceptCheckStep(r)
    \/ \E r \in DOMAIN inflight : AcceptInsertStep(r)

SpecMemberRace == InitMemberRace /\ [][NextMemberRace]_vars

----------------------------------------------------------------------------
(* POST /api/route: the route computation.  Distances are in metres, rates *)
(* in hundredths of a currency unit per kilometre and costs in millionths  *)
(* of a currency unit, so that distance / 1000 * rate and the factor 0.8   *)
(* are exact.                                                              *)

\* the most boarding points of a request
MaxBoardingPoints == 2

costPerKm ==
    [mode \in {"car", "cycling", "walking", "bus", "train", "flight"} |->
        CASE mode = "car"     -> 50
          [] mode = "cycling" -> 0
          [] mode = "walking" -> 0
          [] mode = "bus"     -> 15
          [] mode = "train"   -> 25
          [] mode = "flight"  -> 80]

\* "const rate = costPerKm[mode] || 0.3": a rate of 0 is falsy as well
estimateCost(distance, mode) ==
    LET rate == IF mode \in DOMAIN costPerKm /\ costPerKm[mode] # 0
                THEN costPerKm[mode] ELSE 30
    IN  distance * rate * 10

\* geocode of the route computation: <<lon, lat>> of the first hit, or null
routeGeocode(location) ==
    LET data == NominatimSearch(location)
    IN  IF Len(data) > 0 THEN Some(<<data[1].lon, data[1].lat>>) ELSE None

\* the routing service's answers to one call: none (non-2xx, code not Ok, no
\* routes, network failure) or the first route's distance and duration
RouteServiceAnswers ==
    {None, Some([distance |-> 1000, duration |-> 60]),
     Some([distance |-> 12345, duration |-> 900])}

\* calculateRoute(start, end, mode) when the service answers with svc
calculateRoute(start, end, mode, svc) ==
    IF IsNull(svc) THEN None
    ELSE Some([coordinates |-> << <<Get(start)[2], Get(start)[1]>>,
                                   <<Get(end)[2], Get(end)[1]>> >>,
               distance |-> Get(svc).distance,
               duration |-> Get(svc).duration])

RouteModeInputs == {"car", "cycling", "walking", "bus", "train", "flight", "boat"}
OptimizationInputs == {"shortest", "cheapest", "fastest"}
BoardingPointInputs ==
    UNION {[1..n -> {"Lyon", "Atlantis"}] : n \in 0..MaxBoardingPoints}

RouteRequests ==
    [boardingPoints : BoardingPointInputs, destination : {"", "Paris", "Atlantis"},
     transportMode : RouteModeInputs, optimizationMode : OptimizationInputs]

InitRoute ==
    /\ trips = << >>
    /\ tripMatches = << >>
    /\ groups = << >>
    /\ groupMembers = << >>
    /\ nextTripId = 1
    /\ nextMatchId = 1
    /\ nextGroupId = 1
    /\ nextMemberId = 1
    /\ now = 1
    /\ nEdits = 0
    /\ last = Response("init", 0, NULL)
    /\ \E body \in RouteRequests : inflight = <<[pc |-> "request", body |-> body]>>

\* the entry of routes for one computed route
RouteData(route, cost, transportMode) ==
    [coordinates |-> route.coordinates, distance |-> route.distance,
     duration |-> route.duration, cost |-> cost, mode |-> transportMode]

\* "Main route": the first boarding point, with the discount of cheapest
MainRoute(body, startCoords, destCoords, svc) ==
    LET mainRoute == calculateRoute(startCoords, destCoords, body.transportMode, svc)
    IN  IF IsNull(mainRoute) THEN << >>
        ELSE LET cost == estimateCost(Get(mainRoute).distance, body.transportMode)
             IN  <<RouteData(Get(mainRoute),
                       IF body.optimizationMode = "cheapest"
                       THEN (cost * 8) \div 10 ELSE cost,
                       body.transportMode)>>

\* "If multiple boarding points, calculate additional routes": the entries
\* for the boarding points i..n, svcs[i] being the service's answer for i
RECURSIVE AdditionalRoutes(_, _, _, _)
AdditionalRoutes(body, destCoords, svcs, i) ==
    IF i > Len(body.boardingPoints) THEN << >>
    ELSE LET pointCoords == routeGeocode(body.boardingPoints[i])
             route == IF IsNull(pointCoords) THEN None
                      ELSE calculateRoute(pointCoords, destCoords,
                               body.transportMode, svcs[i])
             entry == IF IsNull(route) THEN << >>
                      ELSE <<RouteData(Get(route),
                                 estimateCost(Get(route).distance, body.transportMode),
                                 body.transportMode)>>
         IN  entry \o AdditionalRoutes(body, destCoords, svcs, i + 1)

\* the checks before any route is computed
ValidateRoute(body) ==
    IF Len(body.boardingPoints) = 0 THEN "NO_BOARDING_POINT"
    ELSE IF ~Truthy(body.destination) THEN "NO_DESTINATION"
    ELSE IF IsNull(routeGeocode(body.boardingPoints[1]))
            \/ IsNull(routeGeocode(body.destination))
    THEN "LOCATION_NOT_FOUND"
    ELSE "OK"

POST_route ==
    /\ inflight # << >>
    /\ inflight[1].pc = "request"
    /\ LET body == inflight[1].body
       IN  IF ValidateRoute(body) # "OK"
           THEN last' = Response("POST_route", 400, ValidateRoute(body))
           ELSE \E svcs \in [1..Len(body.boardingPoints) -> RouteServiceAnswers] :
                  LET startCoords == routeGeocode(body.boardingPoints[1])
                      destCoords  == routeGeocode(body.destination)
                      routes == MainRoute(body, startCoords, destCoords, svcs[1])
                                \o AdditionalRoutes(body, destCoords, svcs, 2)
                  IN  IF Len(routes) = 0
                      THEN last' = Response("POST_route", 400, "NO_ROUTE")
                      ELSE last' = [routes |-> routes]
                                   @@ Response("POST_route", 200, "OK")
    /\ inflight' = [inflight EXCEPT ![1].pc = "done"]
    /\ UNCHANGED <<store, sequences, now, nEdits>>

NextRoute == POST_route

SpecRoute == InitRoute /\ [][NextRoute]_vars

----------------------------------------------------------------------------
(* A trip creation and the services it waits for.  The handler awaits the  *)
(* two geocoding calls and the routing call in turn; each is a fetch       *)
(* without a signal or a timeout, so the handler goes on only when the     *)
(* service answers or the connection fails.                                *)

AwaitCallers == {"u2", NULL}

\* a store with one trip of u1 and a request that has just arrived
InitAwait ==
    /\ trips = SeedTrips(<<"u1">>, 1)
    /\ tripMatches = << >>
    /\ groups = << >>
    /\ groupMembers = << >>
    /\ nextTripId = 2
    /\ nextMatchId = 1
    /\ nextGroupId = 1
    /\ nextMemberId = 1
    /\ now = 2
    /\ nEdits = 0
    /\ last = Response("init", 0, NULL)
    /\ \E caller \in AwaitCallers, body \in TripBodies :
          inflight = <<[pc |-> "start", caller |-> caller, body |-> body,
                        sourceCoords |-> None, destCoords |-> None]>>

\* the session and required-field checks, then the first geocoding call is sent
StartStep(r) ==
    /\ inflight[r].pc = "start"
    /\ IF inflight[r].caller = NULL
       THEN /\ last' = Response("POST_trips", 401, "AUTHENTICATION_REQUIRED")
            /\ inflight' = [inflight EXCEPT ![r].pc = "done"]
       ELSE IF MissingRequiredFields(inflight[r].body)
       THEN /\ last' = Response("POST_trips", 400, "MISSING_REQUIRED_FIELDS")
            /\ inflight' = [inflight EXCEPT ![r].pc = "done"]
       ELSE /\ inflight' = [inflight EXCEPT ![r].pc = "awaitSource"]
            /\ UNCHANGED last
    /\ UNCHANGED <<store, sequences, now, nEdits>>

\* the geocoding service answers the first call (or the connection fails);
\* the handler sends the second call
SourceAnswerStep(r) ==
    /\ inflight[r].pc = "awaitSource"
    /\ \E srcSvc \in GeocodeOutcomes :
          inflight' = [inflight EXCEPT
              ![r].pc = "awaitDestination",
              ![r].sourceCoords = geocode(Sanitize(inflight[r].body).source, srcSvc)]
    /\ UNCHANGED <<store, sequences, now, nEdits, last>>

\* the geocoding service answers the second call; the handler rejects the
\* request or sends the routing call
DestinationAnswerStep(r) ==
    /\ inflight[r].pc = "awaitDestination"
    /\ \E dstSvc \in GeocodeOutcomes :
          LET destCoords == geocode(Sanitize(inflight[r].body).destination, dstSvc)
          IN  IF GeocodingFailed(inflight[r].sourceCoords, destCoords)
              THEN /\ last' = Response("POST_trips", 400, "GEOCODING_FAILED")
                   /\ inflight' = [inflight EXCEPT ![r].pc = "done"]
              ELSE /\ inflight' = [inflight EXCEPT ![r].pc = "awaitRoute",
                                                   ![r].destCoords = destCoords]
                   /\ UNCHANGED last
    /\ UNCHANGED <<store, sequences, now, nEdits>>

\* the routing service answers; the handler stores the trip, runs the
\* matching pass and answers
RouteAnswerStep(r) ==
    /\ inflight[r].pc = "awaitRoute"
    /\ \E routeSvc \in RouteOutcomes, fault \in TripFaults :
          LET sanitizedData == Sanitize(inflight[r].body)
              route == calculateRouteGeometry(inflight[r].sourceCoords,
                           inflight[r].destCoords, sanitizedData.transportMode,
                           routeSvc)
              routeGeometry == IF ~IsNull(route)
                               THEN Some(Get(route).coordinates)
                               ELSE None
          IN  CreateAndMatch(inflight[r].caller, sanitizedData,
                             inflight[r].sourceCoords, inflight[r].destCoords,
                             routeGeometry, routeSvc, fault)
    /\ inflight' = [inflight EXCEPT ![r].pc = "done"]

NextAwait ==
    \/ \E r \in DOMAIN inflight : StartStep(r)
    \/ \E r \in DOMAIN inflight : SourceAnswerStep(r)
    \/ \E r \in DOMAIN inflight : DestinationAnswerStep(r)
    \/ \E r \in DOMAIN inflight : RouteAnswerStep(r)

\* the handler's own step is taken once it can be; nothing in the code makes
\* a service answer
SpecAwait ==
    InitAwait /\ [][NextAwait]_vars /\ WF_vars(\E r \in DOMAIN inflight : StartStep(r))

----------------------------------------------------------------------------
(* The near-route predicate on its own: a point, a polyline and a          *)
(* threshold drawn from the sets below, and one step that evaluates        *)
(* distanceToRoute and isAlongRoute on them.                               *)

\* the most vertices of a polyline
MaxVertices == 3

NearPoints == {<<x, 90>> : x \in {0, 4, 5, 6, 30}}
NearVertices == {<<0, 90>>, <<10, 90>>, <<11, 91>>}
NearPolylines == UNION {[1..n -> NearVertices] : n \in 0..MaxVertices}
NearThresholds == {0, 5, 6}

InitNear ==
    /\ trips = << >>
    /\ tripMatches = << >>
    /\ groups = << >>
    /\ groupMembers = << >>
    /\ nextTripId = 1
    /\ nextMatchId = 1
    /\ nextGroupId = 1
    /\ nextMemberId = 1
    /\ now = 1
    /\ nEdits = 0
    /\ last = Response("init", 0, NULL)
    /\ \E point \in NearPoints, routeCoordinates \in NearPolylines,
          thresholdKm \in NearThresholds :
          inflight = <<[pc |-> "call", point |-> point,
                        routeCoordinates |-> routeCoordinates,
                        thresholdKm |-> thresholdKm]>>

IsAlongRouteCall ==
    /\ inflight[1].pc = "call"
    /\ last' = [distance |-> distanceToRoute(inflight[1].point,
                                 inflight[1].routeCoordinates),
                result |-> isAlongRoute(inflight[1].point,
                               inflight[1].routeCoordinates,
                               inflight[1].thresholdKm)]
               @@ Response("isAlongRoute", 0, NULL)
    /\ inflight' = [inflight EXCEPT ![1].pc = "done"]
    /\ UNCHANGED <<store, sequences, now, nEdits>>

NextNear == IsAlongRouteCall

SpecNear == InitNear /\ [][NextNear]_vars

----------------------------------------------------------------------------
(* Status edits: two stored trips, each already active, cancelled or      *)
(* completed, and the edits PUT /api/trips/[id] accepts.                   *)

StatusValues == {"active", "cancelled", "completed"}

\* bodies of an edit: a status (PUT checks no value) or another field
StatusBodies ==
    {[f \in {"status"} |-> v] : v \in StatusValues \cup {"archived"}}
    \cup {[f \in {"travelDate"} |-> "2025-06-02"]}

\* the trips of u1 and u2 and their match records, after earlier edits of
\* the status
InitStatus ==
    /\ \E s1 \in StatusValues, s2 \in StatusValues :
          trips = [i \in 1..2 |->
                      [SeedTrips(<<"u1", "u2">>, 2)[i] EXCEPT
                          !.status = IF i = 1 THEN s1 ELSE s2]]
    /\ tripMatches = SeedMatches(<<"u1", "u2">>, 2)
    /\ nextMatchId = Len(SeedMatches(<<"u1", "u2">>, 2)) + 1
    /\ groups = << >>
    /\ groupMembers = << >>
    /\ nextTripId = 3
    /\ nextGroupId = 1
    /\ nextMemberId = 1
    /\ now = 3
    /\ nEdits = 0
    /\ inflight = << >>
    /\ last = Response("init", 0, NULL)

NextStatus == PUT_trip({"u1", "u2", NULL}, 1..3, StatusBodies)

SpecStatus == InitStatus /\ [][NextStatus]_vars

----------------------------------------------------------------------------
(* accept-match when a statement fails.  The handler runs its statements   *)
(* one by one, outside any transaction; a statement that throws ends the   *)
(* request in the catch block with status 500 and leaves what the earlier  *)
(* statements wrote.                                                       *)

\* the statement that throws: the second status update, the insert of the
\* group, the insert of the creator's membership, the insert of the matched
\* user's membership
AcceptFaults == {"updateMirror", "insertGroup", "insertAdmin", "insertMember"}

\* the first of the two status updates
AcceptOneDirection(table, tripId, matchedTripId) ==
    [id \in DOMAIN table |->
        IF table[id].tripId = tripId /\ table[id].matchedTripId = matchedTripId
        THEN [table[id] EXCEPT !.status = "accepted"] ELSE table[id]]

\* the statements up to the one that throws, and the answer of the catch block
AcceptMatchFault(userId, tripId, matchId, fault) ==
    LET trip          == trips[tripId]
        matchedTripId == tripMatches[matchId].matchedTripId
        existingGroup == ExistingGroups(groups, tripId, matchedTripId)
        group         == nextGroupId
    IN  /\ fault # "updateMirror" => existingGroup = {}
        /\ tripMatches' =
              IF fault = "updateMirror"
              THEN AcceptOneDirection(tripMatches, tripId, matchedTripId)
              ELSE AcceptBothDirections(tripMatches, tripId, matchedTripId)
        /\ IF fault \in {"insertAdmin", "insertMember"}
           THEN /\ groups' = InsertAll(groups, nextGroupId,
                       << [name |-> <<"Trip to", trip.destination, trip.travelDate>>,
                           tripId |-> Some(tripId), createdBy |-> userId,
                           status |-> "active"] >>)
                /\ nextGroupId' = nextGroupId + 1
           ELSE UNCHANGED <<groups, nextGroupId>>
        /\ IF fault = "insertMember"
           THEN /\ groupMembers' = InsertAll(groupMembers, nextMemberId,
                       <<MemberRow(group, userId, "admin")>>)
                /\ nextMemberId' = nextMemberId + 1
           ELSE UNCHANGED <<groupMembers, nextMemberId>>
        /\ last' = [Response("POST_accept", 500, "INTERNAL_SERVER_ERROR") EXCEPT
                       !.caller = userId, !.tripId = tripId, !.matchId = matchId]
        /\ UNCHANGED <<trips, nextTripId, nextMatchId, now, nEdits, inflight>>

POST_acceptFault(callers, ids, matchIds, faults) ==
    \E caller \in callers, tripId \in ids, matchId \in matchIds, fault \in faults :
        /\ ValidateAccept(caller, tripId, matchId) = "OK"
        /\ AcceptMatchFault(caller, tripId, matchId, fault)

\* the store after the creations of the matching trips of u1 and u2
InitAcceptFault ==
    /\ trips = SeedTrips(<<"u1", "u2">>, 2)
    /\ tripMatches = SeedMatches(<<"u1", "u2">>, 2)
    /\ nextMatchId = Len(SeedMatches(<<"u1", "u2">>, 2)) + 1
    /\ groups = << >>
    /\ groupMembers = << >>
    /\ nextTripId = 3
    /\ nextGroupId = 1
    /\ nextMemberId = 1
    /\ now = 3
    /\ nEdits = 0
    /\ inflight = << >>
    /\ last = Response("init", 0, NULL)

NextAcceptFault ==
    \/ POST_accept({"u1", "u2", NULL}, 1..3, 1..3)
    \/ POST_acceptFault({"u1", "u2"}, 1..2, 1..2, AcceptFaults)

SpecAcceptFault == InitAcceptFault /\ [][NextAcceptFault]_vars

----------------------------------------------------------------------------
(* Two accept-match requests handled at the same time.  Each runs its      *)
(* checks, its two updates and its lookup of an existing group, and later  *)
(* its inserts; the other request may run in between.                      *)

\* a request of the owner of the subject trip of the seeded record matchId
AcceptRequest(matchId) ==
    LET matchRecord == SeedMatches(<<"u1", "u2", "u3">>, 3)[matchId]
    IN  [pc |-> "lookup",
         caller |-> SeedTrips(<<"u1", "u2", "u3">>, 3)[matchRecord.tripId].userId,
         tripId |-> matchRecord.tripId, matchId |-> matchId, groupId |-> 0]

InitAcceptRace ==
    /\ trips = SeedTrips(<<"u1", "u2", "u3">>, 3)
    /\ tripMatches = SeedMatches(<<"u1", "u2", "u3">>, 3)
    /\ nextMatchId = Len(SeedMatches(<<"u1", "u2", "u3">>, 3)) + 1
    /\ groups = << >>
    /\ groupMembers = << >>
    /\ nextTripId = 4
    /\ nextGroupId = 1
    /\ nextMemberId = 1
    /\ now = 4
    /\ nEdits = 0
    /\ last = Response("init", 0, NULL)
    /\ \E m1 \in 1..6, m2 \in 1..6 :
          inflight = <<AcceptRequest(m1), AcceptRequest(m2)>>

\* the answer of an accept-match that was carried out
AcceptAnswer(r, status, code, groupId) ==
    [Response("POST_accept", status, code) EXCEPT
        !.caller = inflight[r].caller, !.tripId = inflight[r].tripId,
        !.matchId = inflight[r].matchId, !.groupId = groupId]

\* the checks, the two updates, "Check if a group already exists for either
\* trip" and, when one exists, "Check if user is already a member"
LookupGroupStep(r) ==
    /\ inflight[r].pc = "lookup"
    /\ ValidateAccept(inflight[r].caller, inflight[r].tripId, inflight[r].matchId) = "OK"
    /\ LET tripId        == inflight[r].tripId
           matchedTripId == tripMatches[inflight[r].matchId].matchedTripId
           existingGroup == ExistingGroups(groups, tripId, matchedTripId)
       IN  /\ tripMatches' = AcceptBothDirections(tripMatches, tripId, matchedTripId)
           /\ IF existingGroup = {}
              THEN /\ inflight' = [inflight EXCEPT ![r].pc = "create"]
                   /\ UNCHANGED last
              ELSE \E group \in existingGroup :
                     IF ~IsMember(groupMembers, group, inflight[r].caller)
                     THEN /\ inflight' = [inflight EXCEPT ![r].pc = "join",
                                                          ![r].groupId = group]
                          /\ UNCHANGED last
                     ELSE /\ inflight' = [inflight EXCEPT ![r].pc = "done",
                                                          ![r].groupId = group]
                          /\ last' = AcceptAnswer(r, 200, "OK", group)
    /\ UNCHANGED <<trips, groups, groupMembers, sequences, now, nEdits>>

\* "Create new group", "Add creator as admin", "Add matched user as member"
CreateGroupStep(r) ==
    /\ inflight[r].pc = "create"
    /\ LET trip          == trips[inflight[r].tripId]
           matchedUserId == trips[tripMatches[inflight[r].matchId].matchedTripId].userId
           group         == nextGroupId
       IN  /\ groups' = InsertAll(groups, nextGroupId,
                  << [name |-> <<"Trip to", trip.destination, trip.travelDate>>,
                      tripId |-> Some(inflight[r].tripId),
                      createdBy |-> inflight[r].caller,
                      status |-> "active"] >>)
           /\ nextGroupId' = nextGroupId + 1
           /\ groupMembers' = InsertAll(groupMembers, nextMemberId,
                  <<MemberRow(group, inflight[r].caller, "admin"),
                    MemberRow(group, matchedUserId, "member")>>)
           /\ nextMemberId' = nextMemberId + 2
           /\ inflight' = [inflight EXCEPT ![r].pc = "done", ![r].groupId = group]
           /\ last' = AcceptAnswer(r, 201, "CREATED", group)
    /\ UNCHANGED <<trips, tripMatches, nextTripId, nextMatchId, now, nEdits>>

\* "Add user as member" of the group that was found
JoinGroupStep(r) ==
    /\ inflight[r].pc = "join"
    /\ groupMembers' = InsertAll(groupMembers, nextMemberId,
           <<MemberRow(inflight[r].groupId, inflight[r].caller, "member")>>)
    /\ nextMemberId' = nextMemberId + 1
    /\ inflight' = [inflight EXCEPT ![r].pc = "done"]
    /\ last' = AcceptAnswer(r, 200, "OK", inflight[r].groupId)
    /\ UNCHANGED <<trips, tripMatches, groups, nextTripId, nextMatchId,
                   nextGroupId, now, nEdits>>

NextAcceptRace ==
    \/ \E r \in DOMAIN inflight : LookupGroupStep(r)
    \/ \E r \in DOMAIN inflight : CreateGroupStep(r)
    \/ \E r \in DOMAIN inflight : JoinGroupStep(r)

SpecAcceptRace == InitAcceptRace /\ [][NextAcceptRace]_vars

----------------------------------------------------------------------------
(* The rules of the scoring table, stated on two stored rows: the subject  *)
(* and the candidate.                                                      *)

Point(text) == <<Get(text).lat, Get(text).lon>>

HasPolyline(row) ==
    ~IsNull(row.routeGeometry) /\ Len(Get(row.routeGeometry)) > 0

\* the coordinate lies within 5 km of some vertex of the row's polyline
WithinFiveKm(text, row) ==
    /\ ~IsNull(text)
    /\ HasPolyline(row)
    /\ \E i \in 1..Len(Get(row.routeGeometry)) :
          calculateDistance(Point(text), Get(row.routeGeometry)[i]) <= 5

SameDestination(subject, candidate) ==
    toLowerCase(subject.destination) = toLowerCase(candidate.destination)
PickupAlongRoute(subject, candidate) ==
    WithinFiveKm(subject.sourceCoordinates, candidate)
DropoffAlongRoute(subject, candidate) ==
    WithinFiveKm(subject.destinationCoordinates, candidate)
RoutesOverlap(subject, candidate) ==
    WithinFiveKm(candidate.sourceCoordinates, subject)
SameTravelDate(subject, candidate) ==
    subject.travelDate = candidate.travelDate
SameTransportMode(subject, candidate) ==
    toLowerCase(subject.transportMode) = toLowerCase(candidate.transportMode)

RulePoints(subject, candidate) ==
    Points(SameDestination(subject, candidate), 50)
    + Points(PickupAlongRoute(subject, candidate), 40)
    + Points(DropoffAlongRoute(subject, candidate), 40)
    + Points(RoutesOverlap(subject, candidate), 30)
    + Points(SameTravelDate(subject, candidate), 30)
    + Points(SameTransportMode(subject, candidate), 20)

\* same destination and no other rule
OnlySameDestination(subject, candidate) ==
    /\ SameDestination(subject, candidate)
    /\ ~PickupAlongRoute(subject, candidate)
    /\ ~DropoffAlongRoute(subject, candidate)
    /\ ~RoutesOverlap(subject, candidate)
    /\ ~SameTravelDate(subject, candidate)
    /\ ~SameTransportMode(subject, candidate)

\* same destination, same travel date and no other rule
OnlySameDestinationAndDate(subject, candidate) ==
    /\ SameDestination(subject, candidate)
    /\ SameTravelDate(subject, candidate)
    /\ ~PickupAlongRoute(subject, candidate)
    /\ ~DropoffAlongRoute(subject, candidate)
    /\ ~RoutesOverlap(subject, candidate)
    /\ ~SameTransportMode(subject, candidate)

\* the stored match records between two trips, in either direction
MatchesBetween(a, b) ==
    {m \in DOMAIN tripMatches :
        \/ tripMatches[m].tripId = a /\ tripMatches[m].matchedTripId = b
        \/ tripMatches[m].tripId = b /\ tripMatches[m].matchedTripId = a}

\* the records the matching pass pushed for the new trip and a candidate
EmittedBetween(a, b) ==
    {i \in 1..Len(last.matchInserts) :
        \/ last.matchInserts[i].tripId = a /\ last.matchInserts[i].matchedTripId = b
        \/ last.matchInserts[i].tripId = b /\ last.matchInserts[i].matchedTripId = a}

\* the last request created a trip
TripCreated == last.op = "POST_trips" /\ last.status = 201

----------------------------------------------------------------------------
(* Claims *)

\* C1: in the matching pass of a trip creation, match records are pushed for
\* a candidate iff the score of (new trip, candidate) is greater than 50, and
\* when the pass completes they are stored iff it is; a candidate with score
\* 50 (same destination and no other rule) gets no record in either direction.
C1_MatchIffAboveThreshold ==
    TripCreated =>
        \A c \in DOMAIN last.scores :
            LET total == RulePoints(trips[last.tripId], trips[c])
            IN  /\ (EmittedBetween(last.tripId, c) # {}) <=> (total > 50)
                /\ last.matching = "ok" =>
                      ((MatchesBetween(last.tripId, c) # {}) <=> (total > 50))
                /\ OnlySameDestination(trips[last.tripId], trips[c]) =>
                      /\ total = 50
                      /\ EmittedBetween(last.tripId, c) = {}
                      /\ MatchesBetween(last.tripId, c) = {}

\* C1 witness: a creation scored a candidate with the same destination and
\* nothing else, and stored no record for it
C1_Witness ==
    /\ TripCreated
    /\ last.matching = "ok"
    /\ \E c \in DOMAIN last.scores :
          /\ OnlySameDestination(trips[last.tripId], trips[c])
          /\ last.scores[c] = 50
          /\ MatchesBetween(last.tripId, c) = {}

\* C2: every pending or accepted match record from A to B has a mirror record
\* from B to A with the same score.
C2_MirrorRecord ==
    \A m \in DOMAIN tripMatches :
        tripMatches[m].status \in {"pending", "accepted"} =>
            \E r \in DOMAIN tripMatches :
                /\ tripMatches[r].tripId = tripMatches[m].matchedTripId
                /\ tripMatches[r].matchedTripId = tripMatches[m].tripId
                /\ tripMatches[r].matchScore = tripMatches[m].matchScore

\* C2 witness: an accepted pair exists after a trip edit
C2_Witness ==
    /\ nEdits > 0
    /\ \E m \in DOMAIN tripMatches : tripMatches[m].status = "accepted"
    /\ \E m \in DOMAIN tripMatches : trips[tripMatches[m].tripId].status # "active"

\* C3: when the pass of a creation completes, every candidate that passes the
\* threshold has exactly two stored records, new->candidate and
\* candidate->new, both pending, both with the score of (new, candidate) and
\* both with the same creation time.
C3_TwoMirroredRecords ==
    (TripCreated /\ last.matching = "ok") =>
        \A c \in DOMAIN last.scores :
            LET total == RulePoints(trips[last.tripId], trips[c])
                ms    == MatchesBetween(last.tripId, c)
            IN  total > 50 =>
                  /\ Cardinality(ms) = 2
                  /\ \E a \in ms, b \in ms :
                        /\ tripMatches[a].tripId = last.tripId
                        /\ tripMatches[a].matchedTripId = c
                        /\ tripMatches[b].tripId = c
                        /\ tripMatches[b].matchedTripId = last.tripId
                        /\ tripMatches[a].status = "pending"
                        /\ tripMatches[b].status = "pending"
                        /\ tripMatches[a].matchScore = total
                        /\ tripMatches[b].matchScore = total
                        /\ tripMatches[a].createdAt = tripMatches[b].createdAt

\* C3 witness: same destination and same date and nothing else: two records
\* of score 80
C3_Witness ==
    /\ TripCreated
    /\ \E c \in DOMAIN last.scores :
          /\ OnlySameDestinationAndDate(trips[last.tripId], trips[c])
          /\ Cardinality(MatchesBetween(last.tripId, c)) = 2
          /\ \A m \in MatchesBetween(last.tripId, c) :
                tripMatches[m].matchScore = 80 /\ tripMatches[m].status = "pending"

\* C4: the score of a pair is the sum of the weights of the rules that hold,
\* each rule taken on its own (50, 40, 40, 30, 30, 20), hence within 0..210.
C4_ScoreIsSumOfRules ==
    last.op \in {"score", "POST_trips"} =>
        \A c \in DOMAIN last.scores :
            /\ last.scores[c] = RulePoints(trips[last.tripId], trips[c])
            /\ last.scores[c] \in 0..210

\* C4 witness: a pair for which all six rules hold
C4_Witness ==
    /\ last.op = "score"
    /\ last.scores[1] = 210
    /\ SameDestination(trips[2], trips[1])
    /\ PickupAlongRoute(trips[2], trips[1])
    /\ DropoffAlongRoute(trips[2], trips[1])
    /\ RoutesOverlap(trips[2], trips[1])
    /\ SameTravelDate(trips[2], trips[1])
    /\ SameTransportMode(trips[2], trips[1])

\* C5: no match record links two trips of the same user, and the pass of a
\* creation pushes no record against another trip of the creator.
C5_NoSelfMatch ==
    /\ \A m \in DOMAIN tripMatches :
          (tripMatches[m].tripId \in DOMAIN trips
              /\ tripMatches[m].matchedTripId \in DOMAIN trips) =>
          trips[tripMatches[m].tripId].userId
              # trips[tripMatches[m].matchedTripId].userId
    /\ TripCreated =>
          \A t \in DOMAIN trips :
              trips[t].userId = last.caller => EmittedBetween(last.tripId, t) = {}

\* C5 witness: a user created a trip while owning another active trip that
\* scores above the threshold against it, and no record links the two
C5_Witness ==
    /\ TripCreated
    /\ last.matching = "ok"
    /\ \E t \in DOMAIN trips \ {last.tripId} :
          /\ trips[t].userId = last.caller
          /\ trips[t].status = "active"
          /\ RulePoints(trips[last.tripId], trips[t]) > 50
          /\ MatchesBetween(last.tripId, t) = {}

\* C6: the pass of a creation scores only trips that are active, and no
\* record is pushed or stored against a trip that is cancelled or completed
\* when the new trip is created.
C6_OnlyActiveCandidates ==
    TripCreated =>
        /\ \A c \in DOMAIN last.scores : trips[c].status = "active"
        /\ \A t \in DOMAIN trips :
              trips[t].status # "active" =>
                  /\ EmittedBetween(last.tripId, t) = {}
                  /\ MatchesBetween(last.tripId, t) = {}

\* C6 witness: a trip was created while another user's cancelled or completed
\* trip scores above the threshold against it, and no record links the two
C6_Witness ==
    /\ TripCreated
    /\ last.matching = "ok"
    /\ \E t \in DOMAIN trips :
          /\ trips[t].userId # last.caller
          /\ trips[t].status \in {"cancelled", "completed"}
          /\ RulePoints(trips[last.tripId], trips[t]) > 50
          /\ MatchesBetween(last.tripId, t) = {}

\* C7: when the matching pass of a creation fails (candidate query or batch
\* insert), the request still answers 201 with the created trip, and the trip
\* is stored.
C7_MatchingFailureKeepsTrip ==
    (last.op = "POST_trips" /\ last.matching = "failed") =>
        /\ last.status = 201
        /\ last.tripId \in DOMAIN trips
        /\ trips[last.tripId].userId = last.caller
        /\ trips[last.tripId].status = "active"
        /\ \A c \in DOMAIN trips : MatchesBetween(last.tripId, c) = {}

\* C7 witness: the batch insert of a non-empty list of records failed
C7_Witness ==
    /\ last.op = "POST_trips"
    /\ last.matching = "failed"
    /\ Len(last.matchInserts) > 0
    /\ last.status = 201
    /\ last.tripId \in DOMAIN trips

\* the step stores a new trip row
StoresTrip == nextTripId' = nextTripId + 1 /\ nextTripId \in DOMAIN trips'

\* C8: a creation whose geocoding of the origin or of the destination fails
\* is answered 400 GEOCODING_FAILED and leaves the store as it was; a trip is
\* stored only with both coordinates resolved.
C8_GeocodingFailureRejected ==
    [][ /\ last'.code = "GEOCODING_FAILED" =>
              /\ last'.op = "POST_trips"
              /\ last'.status = 400
              /\ UNCHANGED <<store, sequences>>
        /\ StoresTrip =>
              LET row == trips'[nextTripId]
              IN  /\ row.source \in DOMAIN Gazetteer
                  /\ row.destination \in DOMAIN Gazetteer
                  /\ ~IsNull(row.sourceCoordinates)
                  /\ ~IsNull(row.destinationCoordinates)
                  /\ Point(row.sourceCoordinates) = Gazetteer[row.source]
                  /\ Point(row.destinationCoordinates) = Gazetteer[row.destination]
      ]_vars

\* C8 witness: a creation was rejected for geocoding while the store holds
\* trips and match records
C8_Witness ==
    /\ last.op = "POST_trips"
    /\ last.code = "GEOCODING_FAILED"
    /\ last.status = 400
    /\ DOMAIN trips # {}
    /\ DOMAIN tripMatches # {}

\* C9: a creation whose routing call fails or finds no route stores the trip
\* with a null route geometry, and its pass scores every candidate with the
\* rules that do not need the new trip's polyline.
C9_RouteUnavailableStillMatches ==
    (last.op = "POST_trips" /\ last.routeSvc \in {"error", "noroute"}) =>
        /\ last.status = 201
        /\ last.tripId \in DOMAIN trips
        /\ IsNull(trips[last.tripId].routeGeometry)
        /\ last.matching \in {"ok", "failed"}
        /\ last.matching = "ok" =>
              \A c \in DOMAIN trips :
                  (trips[c].status = "active" /\ trips[c].userId # last.caller) =>
                      /\ c \in DOMAIN last.scores
                      /\ last.scores[c] =
                            Points(SameDestination(trips[last.tripId], trips[c]), 50)
                            + Points(PickupAlongRoute(trips[last.tripId], trips[c]), 40)
                            + Points(DropoffAlongRoute(trips[last.tripId], trips[c]), 40)
                            + Points(SameTravelDate(trips[last.tripId], trips[c]), 30)
                            + Points(SameTransportMode(trips[last.tripId], trips[c]), 20)
                      /\ (MatchesBetween(last.tripId, c) # {}) <=> (last.scores[c] > 50)

\* C9 witness: the routing call failed, the trip is stored without geometry
\* and was matched to a candidate on whose route its origin lies
C9_Witness ==
    /\ last.op = "POST_trips"
    /\ last.routeSvc = "error"
    /\ last.status = 201
    /\ IsNull(trips[last.tripId].routeGeometry)
    /\ \E c \in DOMAIN last.scores :
          /\ PickupAlongRoute(trips[last.tripId], trips[c])
          /\ MatchesBetween(last.tripId, c) # {}

\* C10: an accept-match request that is carried out names a trip of the
\* caller and a match record whose subject trip is that trip; any other
\* accept-match request is rejected and leaves trips, match records, groups
\* and memberships as they were.
C10_AcceptOnlyOwnMatch ==
    [][ last'.op = "POST_accept" =>
          IF last'.status \in {200, 201}
          THEN /\ last'.tripId \in DOMAIN trips
               /\ trips[last'.tripId].userId = last'.caller
               /\ last'.matchId \in DOMAIN tripMatches
               /\ tripMatches[last'.matchId].tripId = last'.tripId
          ELSE /\ last'.code \in {"AUTHENTICATION_REQUIRED", "TRIP_NOT_FOUND",
                                  "FORBIDDEN", "MATCH_NOT_FOUND", "MATCH_MISMATCH"}
               /\ UNCHANGED <<store, sequences>>
      ]_vars

\* C10 witness: an accept naming a match record of another trip was rejected
\* while pending records exist
C10_Witness ==
    /\ last.op = "POST_accept"
    /\ last.code = "MATCH_MISMATCH"
    /\ last.status = 400
    /\ \E m \in DOMAIN tripMatches : tripMatches[m].status = "pending"

\* the stored records that mirror record m: subject and candidate swapped
MirrorsOf(m) ==
    {n \in DOMAIN tripMatches :
        /\ tripMatches[n].tripId = tripMatches[m].matchedTripId
        /\ tripMatches[n].matchedTripId = tripMatches[m].tripId}

\* the last request was an accept-match that was carried out
AcceptDone == last.op = "POST_accept" /\ last.status \in {200, 201}

GroupsOfTrips(table, a, b) ==
    {g \in DOMAIN table : table[g].tripId \in {Some(a), Some(b)}}

\* the membership rows of a group
MembersOf(table, g) == {m \in DOMAIN table : table[m].groupId = g}

\* the membership rows of a user in a group
MembershipsOf(table, g, u) ==
    {m \in DOMAIN table : table[m].groupId = g /\ table[m].userId = u}

\* the step carries out an accept-match; last' names its trip and record
AcceptStep == last'.op = "POST_accept" /\ last'.status \in {200, 201}

\* C13: an accept carried out while no group has the subject trip or the
\* candidate trip as its originating trip creates exactly one group, for the
\* subject trip, whose members afterwards are exactly the subject trip's
\* owner as admin and the candidate trip's owner as member.
C13_NewGroupTwoMembers ==
    [][ (AcceptStep /\ last'.matchId \in DOMAIN tripMatches) =>
          LET S == last'.tripId
              C == tripMatches[last'.matchId].matchedTripId
          IN  GroupsOfTrips(groups, S, C) = {} =>
                /\ last'.status = 201
                /\ Cardinality(DOMAIN groups' \ DOMAIN groups) = 1
                /\ DOMAIN groups \subseteq DOMAIN groups'
                /\ \A g \in DOMAIN groups : groups'[g] = groups[g]
                /\ \A g \in DOMAIN groups' \ DOMAIN groups :
                      /\ last'.groupId = g
                      /\ groups'[g].tripId = Some(S)
                      /\ Cardinality(MembersOf(groupMembers', g)) = 2
                      /\ \E a, b \in MembersOf(groupMembers', g) :
                            /\ a # b
                            /\ groupMembers'[a].userId = trips[S].userId
                            /\ groupMembers'[a].role = "admin"
                            /\ groupMembers'[b].userId = trips[C].userId
                            /\ groupMembers'[b].role = "member"
                /\ \A m \in DOMAIN groupMembers :
                      m \in DOMAIN groupMembers' /\ groupMembers'[m] = groupMembers[m]
      ]_vars

\* C13 witness: an accept created a group beside a directly created one, and
\* the new group has two members, the caller as admin
C13_Witness ==
    /\ AcceptDone
    /\ last.status = 201
    /\ last.groupId \in DOMAIN groups
    /\ groups[last.groupId].tripId = Some(last.tripId)
    /\ Cardinality(MembersOf(groupMembers, last.groupId)) = 2
    /\ \E m \in MembersOf(groupMembers, last.groupId) :
          groupMembers[m].userId = last.caller /\ groupMembers[m].role = "admin"
    /\ \E g \in DOMAIN groups : g # last.groupId

\* C14: when the owner of a subject trip that already has a group, and an
\* accepted match with another candidate, accepts a match with a different
\* candidate trip, no group is created and the owner of the newly accepted
\* candidate trip is a member of the subject trip's group afterwards.
C14_SecondAcceptJoinsCandidate ==
    [][ (AcceptStep /\ last'.matchId \in DOMAIN tripMatches) =>
          LET S == last'.tripId
              C == tripMatches[last'.matchId].matchedTripId
          IN  (/\ GroupsOfTrips(groups, S, S) # {}
               /\ \E m \in DOMAIN tripMatches :
                     /\ tripMatches[m].tripId = S
                     /\ tripMatches[m].matchedTripId # C
                     /\ tripMatches[m].status = "accepted") =>
                /\ DOMAIN groups' = DOMAIN groups
                /\ \E g \in GroupsOfTrips(groups, S, S) :
                      MembershipsOf(groupMembers', g, trips[C].userId) # {}
      ]_vars

\* C15: an accept carried out while a group has the subject trip or the
\* candidate trip as its originating trip creates no group, answers with one
\* of those groups, and leaves the accepting user with exactly one membership
\* in it; nothing else is added.
C15_ExistingGroupIdempotent ==
    [][ (AcceptStep /\ last'.matchId \in DOMAIN tripMatches) =>
          LET S == last'.tripId
              C == tripMatches[last'.matchId].matchedTripId
              G == last'.groupId
          IN  GroupsOfTrips(groups, S, C) # {} =>
                /\ last'.status = 200
                /\ groups' = groups
                /\ G \in GroupsOfTrips(groups, S, C)
                /\ Cardinality(MembershipsOf(groupMembers', G, last'.caller)) = 1
                /\ \A m \in DOMAIN groupMembers :
                      m \in DOMAIN groupMembers' /\ groupMembers'[m] = groupMembers[m]
                /\ \A m \in DOMAIN groupMembers' \ DOMAIN groupMembers :
                      /\ groupMembers'[m].groupId = G
                      /\ groupMembers'[m].userId = last'.caller
                      /\ groupMembers'[m].role = "member"
                /\ MembershipsOf(groupMembers, G, last'.caller) # {} =>
                      groupMembers' = groupMembers
      ]_vars

\* C15 witness: the accepted record was already accepted (a repeat, or the
\* mirror of an accepted record), the group of the first accept was returned,
\* and the caller is in it as the member the first accept added
C15_Witness ==
    /\ AcceptDone
    /\ last.status = 200
    /\ last.groupId \in DOMAIN groups
    /\ groups[last.groupId].createdBy # last.caller
    /\ groups[last.groupId].tripId = Some(tripMatches[last.matchId].matchedTripId)
    /\ Cardinality(MembershipsOf(groupMembers, last.groupId, last.caller)) = 1

\* C16: at most one group has a given non-null originating trip id.
C16_OneGroupPerTrip ==
    \A g, h \in DOMAIN groups :
        (~IsNull(groups[g].tripId) /\ groups[g].tripId = groups[h].tripId) => g = h

\* C17: no two membership rows have the same group id and user id.
C17_MembershipUnique ==
    \A m, n \in DOMAIN groupMembers :
        (/\ groupMembers[m].groupId = groupMembers[n].groupId
         /\ groupMembers[m].userId = groupMembers[n].userId) => m = n

\* C17 witness: a join or an invite was refused for a user who is already a
\* member, in a store where creation, accept and join or invite have all
\* added members
C17_Witness ==
    /\ last.code = "ALREADY_MEMBER"
    /\ \E g, h \in DOMAIN groups :
          /\ g \in DirectGroups(groups)
          /\ h \notin DirectGroups(groups)
          /\ \/ Cardinality(MembersOf(groupMembers, g)) > 1
             \/ Cardinality(MembersOf(groupMembers, h)) > 2

\* C18: when two trip creations by different users are handled at the same
\* time, the store ends with at most one match record per ordered pair
\* (subject trip, candidate trip).
C18_NoDuplicateMatchRows ==
    (\A r \in DOMAIN inflight : inflight[r].pc = "done") =>
        \A m, n \in DOMAIN tripMatches :
            (/\ tripMatches[m].tripId = tripMatches[n].tripId
             /\ tripMatches[m].matchedTripId = tripMatches[n].matchedTripId)
                => m = n

\* C19: when accept, join and invite requests that add the same user to the
\* same group are handled at the same time, at most one membership row exists
\* for that (group id, user id) pair once they have all been answered.
C19_RaceNoDuplicateMembership ==
    (inflight # << >> /\ \A r \in DOMAIN inflight : inflight[r].pc = "done") =>
        \A g \in DOMAIN groups : \A u \in GroupUsers :
            Cardinality(MembershipsOf(groupMembers, g, u)) <= 1

\* the tags recorded for the scored pair
ScoredTags == {last.reasons[1][i] : i \in DOMAIN last.reasons[1]}

\* the points of the rules that read no polyline
PointsWithoutRoute(subject, candidate) ==
    Points(SameDestination(subject, candidate), 50)
    + Points(SameTravelDate(subject, candidate), 30)
    + Points(SameTransportMode(subject, candidate), 20)

\* C20 as stated: whenever the subject or the candidate has no resolved,
\* non-empty polyline, none of pickup-along-route, dropoff-along-route and
\* routes overlap adds points, and the pair is still scored.
C20_EitherSideMissingAllRulesZero ==
    last.op = "score" =>
        /\ last.scores[1] \in 0..210
        /\ (~HasPolyline(trips[2]) \/ ~HasPolyline(trips[1])) =>
              /\ ScoredTags \cap {"pickup_along_route", "dropoff_along_route",
                                  "routes_overlap"} = {}
              /\ last.scores[1] = PointsWithoutRoute(trips[2], trips[1])

\* C20, amended: a route-proximity rule adds no points whenever the trip
\* whose polyline it reads has no resolved, non-empty polyline (the candidate
\* for pickup-along-route and dropoff-along-route, the subject for routes
\* overlap), and the pair is still scored.
C20_MissingPolylineRuleContributesZero ==
    last.op = "score" =>
        /\ last.scores[1] \in 0..210
        /\ ~HasPolyline(trips[1]) =>
              /\ ScoredTags \cap {"pickup_along_route", "dropoff_along_route"} = {}
              /\ last.scores[1] = PointsWithoutRoute(trips[2], trips[1])
                    + Points(RoutesOverlap(trips[2], trips[1]), 30)
        /\ ~HasPolyline(trips[2]) =>
              /\ "routes_overlap" \notin ScoredTags
              /\ last.scores[1] = PointsWithoutRoute(trips[2], trips[1])
                    + Points(PickupAlongRoute(trips[2], trips[1]), 40)
                    + Points(DropoffAlongRoute(trips[2], trips[1]), 40)

\* C20 witness: the subject's polyline is empty, the candidate has one that
\* passes the subject's origin and starts at the candidate's own origin; the
\* pair is scored with the pickup rule and without the overlap rule
C20_Witness ==
    /\ last.op = "score"
    /\ trips[2].routeGeometry = Some(<< >>)
    /\ HasPolyline(trips[1])
    /\ WithinFiveKm(trips[1].sourceCoordinates, trips[1])
    /\ "pickup_along_route" \in ScoredTags
    /\ "routes_overlap" \notin ScoredTags

\* the number of the six rules that hold for the pair
RulesThatHold(subject, candidate) ==
    Points(SameDestination(subject, candidate), 1)
    + Points(PickupAlongRoute(subject, candidate), 1)
    + Points(DropoffAlongRoute(subject, candidate), 1)
    + Points(RoutesOverlap(subject, candidate), 1)
    + Points(SameTravelDate(subject, candidate), 1)
    + Points(SameTransportMode(subject, candidate), 1)

\* C21: the tags recorded for a scored pair are exactly the rules that added
\* points: one tag per rule that holds, the same travel date and the same
\* transport mode included, and no tag for a rule that does not hold.
C21_TagsAreExactlyContributingRules ==
    last.op = "score" =>
        /\ ("same_destination" \in ScoredTags) <=> SameDestination(trips[2], trips[1])
        /\ ("pickup_along_route" \in ScoredTags) <=> PickupAlongRoute(trips[2], trips[1])
        /\ ("dropoff_along_route" \in ScoredTags) <=> DropoffAlongRoute(trips[2], trips[1])
        /\ ("routes_overlap" \in ScoredTags) <=> RoutesOverlap(trips[2], trips[1])
        /\ Cardinality(ScoredTags) = RulesThatHold(trips[2], trips[1])

\* the fixed rate of a transport mode, in hundredths per kilometre
RatePerKm(mode) ==
    CASE mode = "car"     -> 50
      [] mode = "cycling" -> 0
      [] mode = "walking" -> 0
      [] mode = "bus"     -> 15
      [] mode = "train"   -> 25
      [] mode = "flight"  -> 80
      [] OTHER            -> 30

\* C22: every route of an answer of the route computation costs its distance
\* in kilometres times the fixed rate of the transport mode (0.3 for an
\* unknown mode), times 0.8 when the optimization preference is cheapest.
C22_CostIsDistanceTimesRate ==
    (last.op = "POST_route" /\ last.status = 200) =>
        \A i \in DOMAIN last.routes :
            last.routes[i].cost * 10 =
                last.routes[i].distance * RatePerKm(inflight[1].body.transportMode) * 10
                * (IF inflight[1].body.optimizationMode = "cheapest" THEN 8 ELSE 10)

\* C23: every trip-creation request is eventually answered, whether or not
\* the geocoding and routing services ever answer.
C23_CreationEventuallyAnswers ==
    <>(\A r \in DOMAIN inflight : inflight[r].pc = "done")

\* the distances from the point of the call to the vertices of its polyline
VertexDistances ==
    {calculateDistance(inflight[1].point, inflight[1].routeCoordinates[i]) :
        i \in DOMAIN inflight[1].routeCoordinates}

\* C24: the near-route predicate is true iff the polyline is non-empty and
\* the least distance from the point to a vertex is at most the threshold
\* (the bound included); the distance to an empty polyline is infinite and
\* the predicate is then false.
C24_NearRouteIffMinWithinThreshold ==
    last.op = "isAlongRoute" =>
        /\ last.result <=>
              /\ VertexDistances # {}
              /\ \E d \in VertexDistances :
                    /\ \A e \in VertexDistances : d <= e
                    /\ d <= inflight[1].thresholdKm
        /\ VertexDistances = {} => (last.distance = Infinity /\ ~last.result)
        /\ VertexDistances # {} =>
              /\ last.distance \in VertexDistances
              /\ \A e \in VertexDistances : last.distance <= e

\* C24 witness: the first vertex is farther than the threshold, a later one
\* lies exactly at the threshold, and the predicate is true
C24_Witness ==
    /\ last.op = "isAlongRoute"
    /\ Len(inflight[1].routeCoordinates) >= 2
    /\ calculateDistance(inflight[1].point, inflight[1].routeCoordinates[1])
          > inflight[1].thresholdKm
    /\ last.distance = inflight[1].thresholdKm
    /\ inflight[1].thresholdKm > 0
    /\ last.result

\* a step that edits a trip: only PUT /api/trips/[id] counts the edits
EditStep == nEdits' # nEdits

\* C25: an edit of a trip leaves every match record as it is (none created,
\* removed, rescored or changed in status) and leaves the stored coordinates
\* and the route geometry of every trip as they are.
C25_EditKeepsMatchesAndRoute ==
    [][EditStep =>
        /\ tripMatches' = tripMatches
        /\ nextMatchId' = nextMatchId
        /\ DOMAIN trips' = DOMAIN trips
        /\ \A t \in DOMAIN trips :
              /\ trips'[t].sourceCoordinates = trips[t].sourceCoordinates
              /\ trips'[t].destinationCoordinates = trips[t].destinationCoordinates
              /\ trips'[t].routeGeometry = trips[t].routeGeometry]_vars

\* C25 witness: a trip with a stored route and a match record has been moved
\* to another source and destination
C25_Witness ==
    /\ last.op = "PUT_trip"
    /\ last.status = 200
    /\ trips[last.tripId].source = "Nice"
    /\ trips[last.tripId].destination = "Rome"
    /\ ~IsNull(trips[last.tripId].routeGeometry)
    /\ trips[last.tripId].sourceCoordinates = FormatCoords(Some(Gazetteer["Lyon"]))
    /\ \E m \in DOMAIN tripMatches : tripMatches[m].tripId = last.tripId

\* C26: a match record disappears only in a step that deletes one of its two
\* trips, and after every step each match record references two existing
\* trips (a deletion removes the records that name the trip on either side).
C26_MatchesFollowTheirTrips ==
    [][/\ \A m \in DOMAIN tripMatches \ DOMAIN tripMatches' :
             \/ tripMatches[m].tripId \in DOMAIN trips \ DOMAIN trips'
             \/ tripMatches[m].matchedTripId \in DOMAIN trips \ DOMAIN trips'
       /\ \A m \in DOMAIN tripMatches' :
             /\ tripMatches'[m].tripId \in DOMAIN trips'
             /\ tripMatches'[m].matchedTripId \in DOMAIN trips']_vars

\* C26 witness: a trip that had match records on both sides was deleted; the
\* other trip is still stored and no record is left
C26_Witness ==
    /\ last.op = "DELETE_trip"
    /\ last.status = 200
    /\ last.tripId \notin DOMAIN trips
    /\ DOMAIN trips # {}
    /\ nextMatchId > 2
    /\ DOMAIN tripMatches = {}

\* C27: the status of a trip is always active, cancelled or completed, and a
\* completed trip stays completed whatever update is made.
C27_StatusOneWay ==
    [][\A t \in DOMAIN trips \cap DOMAIN trips' :
          /\ trips'[t].status \in {"active", "cancelled", "completed"}
          /\ trips[t].status = "completed" => trips'[t].status = "completed"]_vars

\* C28: an accept-match that ends in an error leaves no record accepted by
\* it and no group without two members; in every state between requests
\* each accepted record has its mirror accepted and a group of one of its
\* two trips, and every group has at least two members.
C28_AcceptAllOrNothing ==
    /\ \A m \in DOMAIN tripMatches :
          tripMatches[m].status = "accepted" =>
              /\ \A n \in MirrorsOf(m) : tripMatches[n].status = "accepted"
              /\ GroupsOfTrips(groups, tripMatches[m].tripId,
                               tripMatches[m].matchedTripId) # {}
    /\ \A g \in DOMAIN groups :
          Cardinality({groupMembers[x].userId : x \in MembersOf(groupMembers, g)}) >= 2

\* C29: an accept-match that is carried out for a record S to C changes the
\* status of records between S and C only: every record of another pair of
\* trips keeps its status and its score, no record appears or disappears,
\* every record keeps its score, and no trip changes.
C29_AcceptTouchesOnlyItsPair ==
    [][AcceptStep =>
        LET S == last'.tripId
            C == tripMatches[last'.matchId].matchedTripId
        IN  /\ trips' = trips
            /\ DOMAIN tripMatches' = DOMAIN tripMatches
            /\ \A m \in DOMAIN tripMatches :
                  /\ tripMatches'[m].tripId = tripMatches[m].tripId
                  /\ tripMatches'[m].matchedTripId = tripMatches[m].matchedTripId
                  /\ tripMatches'[m].matchScore = tripMatches[m].matchScore
                  /\ {tripMatches[m].tripId, tripMatches[m].matchedTripId} # {S, C}
                        => tripMatches'[m] = tripMatches[m]]_vars

\* C29 witness: the record 1 to 2 has been accepted while the records
\* between trip 3 and the trips 1 and 2 are still pending
C29_Witness ==
    /\ AcceptDone
    /\ tripMatches[last.matchId].status = "accepted"
    /\ \E m \in DOMAIN tripMatches :
          /\ tripMatches[m].tripId = last.tripId
          /\ tripMatches[m].matchedTripId # tripMatches[last.matchId].matchedTripId
          /\ tripMatches[m].status = "pending"
    /\ \E m \in DOMAIN tripMatches :
          /\ tripMatches[m].tripId # last.tripId
          /\ tripMatches[m].matchedTripId # last.tripId
          /\ tripMatches[m].status = "pending"

\* the requests r and q accept the two mirror records of one pair of trips
MirrorRequests(r, q) ==
    /\ inflight[r].tripId = tripMatches[inflight[q].matchId].matchedTripId
    /\ inflight[q].tripId = tripMatches[inflight[r].matchId].matchedTripId

\* C30: when the owners of two matched trips accept their mirror records at
\* the same time, then once both are answered at most one group exists for
\* the pair and both owners are members of that one group.
C30_MirrorAcceptsShareOneGroup ==
    (DOMAIN inflight = {1, 2} /\ MirrorRequests(1, 2)
     /\ \A r \in DOMAIN inflight : inflight[r].pc = "done") =>
        /\ Cardinality(GroupsOfTrips(groups, inflight[1].tripId, inflight[2].tripId)) <= 1
        /\ \E g \in GroupsOfTrips(groups, inflight[1].tripId, inflight[2].tripId) :
              /\ MembershipsOf(groupMembers, g, inflight[1].caller) # {}
              /\ MembershipsOf(groupMembers, g, inflight[2].caller) # {}

====
